---- MODULE Spec2Model ----
(***************************************************************************)
(* Model of the endpoint registry of s3-browser: the credential codec of   *)
(* services/storage.ts, the registry operations built on it, and the       *)
(* components and hooks that drive them.                                   *)
(*                                                                         *)
(* A JavaScript string is the sequence of its UTF-16 code units, so "a" is *)
(* <<97>> and a lone high surrogate is <<55357>>.  The value `undefined`   *)
(* is Undefined, which is no string.                                       *)
(***************************************************************************)
EXTENDS Integers, Sequences, FiniteSets, TLC

VARIABLES
    cin,        \* codec harness: the string handed to encode / decode
    cenc,       \* codec harness: outcome of encode(cin)
    cdec,       \* codec harness: outcome of decode applied to cenc's value or to cin
    loaded,     \* load harness: which loadEndpoints ran last, and its outcome
    localStorage,   \* the item stored under 's3-browser-endpoints'
    app,        \* which iteration of the application the page runs
    lastOp,     \* the handler that ran last: the key and the profile it was given, whether it
                \* completed, and whether the registry held an entry under the key it looked up
    clock,      \* Date.now()
    issued,     \* the ids generated so far
    \* EndpointManager on services/storage.ts (profiles keyed by name)
    editingEndpoint,    \* useState: the profile being edited, or null
    modalVisible,       \* useState: the form modal is open
    view,               \* the rows of the table: loadEndpoints() at the last render
    selectedName,       \* the selectedEndpoint prop: the selected profile's name, "" for none
    s3Client,           \* App's useMemo: the profile the storage client was created from, or null
    \* useS3Browser on services/s3Service.ts (profiles keyed by id)
    hookEndpoints,      \* useState endpoints: the profiles
    selectedEndpoint,   \* useState: the selected profile, or null
    hookEditing,        \* EndpointManager's useState editingEndpoint, or null
    showForm,           \* EndpointManager's useState showForm
    \* S3Config
    savedConfigs,       \* useState: the saved configurations
    configsItem,        \* the item stored under 's3-browser-configs'
    \* App and the location (App's selectedEndpoint is selectedName)
    hash,               \* the fragment of window.location, without its '#'
    selectedBucket,     \* useState: the selected bucket's name, "" for none
    currentPath,        \* useState: the path inside the bucket
    showObjects,        \* useState of the first App: the object view is shown
    pending,            \* hashchange events queued and not yet dispatched
    navSteps,           \* user actions on the navigation so far
    \* the bucket views and the storage gateway
    remote,             \* the buckets the storage service holds
    buckets,            \* useState buckets: the list shown
    loading,            \* useState loading
    error,              \* the message shown: the hook's error, or the last message.error
    call,               \* the gateway call in flight
    unhandled,          \* the handlers whose rejection nothing caught
    gwSteps,            \* user actions on the bucket views so far
    \* forms and pure functions
    fnIn,               \* function harness: what the form or the function is handed
    fnOut,              \* function harness: what it did with it
    \* the object views
    objects,            \* useState objects: the listing shown
    inFlight,           \* the requests of the object view that have not settled
    objSteps,           \* user actions on the object view so far
    \* two tabs on one backing record
    tabs,               \* each tab: where it is and the list it holds
    missed,             \* each tab: what the record gained since the tab loaded it
    navIn,      \* navigation harness: the triple handed to updateHash
    navAssigned,    \* navigation harness: what updateHash assigned to window.location.hash
    navOut      \* navigation harness: what parseHash returned

codecVars == <<cin, cenc, cdec>>
mgrVars == <<editingEndpoint, modalVisible, view, selectedName, s3Client>>
hookVars == <<hookEndpoints, selectedEndpoint, hookEditing, showForm>>
cfgVars == <<savedConfigs, configsItem>>
navVars == <<hash, selectedBucket, currentPath, showObjects, pending, navSteps>>
hashVars == <<navIn, navAssigned, navOut>>
gwVars == <<remote, buckets, loading, error, call, unhandled, gwSteps>>
fnVars == <<fnIn, fnOut>>
objVars == <<objects, inFlight, objSteps>>
tabVars == <<tabs, missed>>
extraVars == <<fnVars, objVars, tabVars>>
appVars ==
    <<app, lastOp, clock, issued, mgrVars, hookVars, cfgVars, navVars, hashVars, gwVars, extraVars>>
vars == <<codecVars, loaded, localStorage, appVars>>

---------------------------------------------------------------------------
(* Bounds *)

\* longest string the codec harness enumerates
MaxLen == 3

\* longest array the load harness finds in the backing record
MaxItems == 2

\* most profiles (configurations) the add flow is followed to
MaxEndpoints == 2

\* latest Date.now() an id is generated at
MaxClock == 3

\* longest location the navigation harness enumerates; names and paths are two shorter
MaxNavLen == 4

---------------------------------------------------------------------------
(* JavaScript values and completions *)

Undefined == <<-1>>

\* String(undefined) is "undefined"; a string converts to itself
StringOf(v) == IF v = Undefined THEN <<117, 110, 100, 101, 102, 105, 110, 101, 100>> ELSE v

\* a normal completion with a value, and an abrupt one (a thrown exception)
Return(v) == [threw |-> FALSE, value |-> v]
Throw == [threw |-> TRUE, value |-> << >>]

\* no call has been made yet
NotRun == [threw |-> FALSE, value |-> Undefined]

\* p followed by the rest of the result, unless the rest threw
Prepend(p, rest) == IF rest.threw THEN rest ELSE Return(p \o rest.value)

---------------------------------------------------------------------------
(* encodeURIComponent, ECMA-262 Encode(string, uriUnescaped) *)

\* A-Z a-z 0-9 - _ . ! ~ * ' ( )
UnreservedSet == (65..90) \cup (97..122) \cup (48..57) \cup {45, 95, 46, 33, 126, 42, 39, 40, 41}

IsHighSurrogate(c) == c >= 55296 /\ c <= 56319
IsLowSurrogate(c) == c >= 56320 /\ c <= 57343

\* the code point of a surrogate pair
PairCodePoint(hi, lo) == 65536 + (hi - 55296) * 1024 + (lo - 56320)

\* the UTF-8 octets of a code point
UTF8(cp) ==
    IF cp < 128 THEN <<cp>>
    ELSE IF cp < 2048 THEN <<192 + (cp \div 64), 128 + (cp % 64)>>
    ELSE IF cp < 65536 THEN <<224 + (cp \div 4096), 128 + ((cp \div 64) % 64), 128 + (cp % 64)>>
    ELSE <<240 + (cp \div 262144), 128 + ((cp \div 4096) % 64), 128 + ((cp \div 64) % 64), 128 + (cp % 64)>>

\* upper-case hexadecimal digit of 0..15
HexDigit(n) == IF n < 10 THEN 48 + n ELSE 55 + n

\* "%XX" for every octet
RECURSIVE PercentAll(_)
PercentAll(octets) ==
    IF Len(octets) = 0 THEN << >>
    ELSE <<37, HexDigit(Head(octets) \div 16), HexDigit(Head(octets) % 16)>> \o PercentAll(Tail(octets))

RECURSIVE EncodeFrom(_, _)
EncodeFrom(s, k) ==
    IF k > Len(s) THEN Return(<< >>)
    ELSE IF s[k] \in UnreservedSet THEN Prepend(<<s[k]>>, EncodeFrom(s, k + 1))
    ELSE IF IsLowSurrogate(s[k]) THEN Throw
    ELSE IF IsHighSurrogate(s[k]) THEN
        IF k + 1 > Len(s) \/ ~IsLowSurrogate(s[k + 1]) THEN Throw
        ELSE Prepend(PercentAll(UTF8(PairCodePoint(s[k], s[k + 1]))), EncodeFrom(s, k + 2))
    ELSE Prepend(PercentAll(UTF8(s[k])), EncodeFrom(s, k + 1))

\* throws URIError on an unpaired surrogate
encodeURIComponent(v) == EncodeFrom(StringOf(v), 1)

---------------------------------------------------------------------------
(* btoa and atob, HTML forgiving-base64 *)

\* the base64 character of a sextet
SextetChar(n) ==
    IF n < 26 THEN 65 + n
    ELSE IF n < 52 THEN 97 + (n - 26)
    ELSE IF n < 62 THEN 48 + (n - 52)
    ELSE IF n = 62 THEN 43 ELSE 47

\* the sextet of a base64 character, -1 for any other character
SextetValue(c) ==
    IF c >= 65 /\ c <= 90 THEN c - 65
    ELSE IF c >= 97 /\ c <= 122 THEN c - 97 + 26
    ELSE IF c >= 48 /\ c <= 57 THEN c - 48 + 52
    ELSE IF c = 43 THEN 62
    ELSE IF c = 47 THEN 63 ELSE -1

RECURSIVE Base64Encode(_)
Base64Encode(b) ==
    IF Len(b) = 0 THEN << >>
    ELSE IF Len(b) = 1 THEN
        <<SextetChar(b[1] \div 4), SextetChar((b[1] % 4) * 16), 61, 61>>
    ELSE IF Len(b) = 2 THEN
        <<SextetChar(b[1] \div 4), SextetChar((b[1] % 4) * 16 + (b[2] \div 16)),
          SextetChar((b[2] % 16) * 4), 61>>
    ELSE
        <<SextetChar(b[1] \div 4), SextetChar((b[1] % 4) * 16 + (b[2] \div 16)),
          SextetChar((b[2] % 16) * 4 + (b[3] \div 64)), SextetChar(b[3] % 64)>>
        \o Base64Encode(SubSeq(b, 4, Len(b)))

\* throws InvalidCharacterError on a character above U+00FF
btoa(v) ==
    LET s == StringOf(v) IN
    IF \E i \in 1..Len(s) : s[i] > 255 THEN Throw ELSE Return(Base64Encode(s))

IsAsciiWhitespace(c) == c \in {9, 10, 12, 13, 32}

\* up to two trailing "=" removed when the length is a multiple of four
StripPadding(d) ==
    IF Len(d) % 4 = 0 /\ Len(d) > 0 /\ d[Len(d)] = 61
    THEN IF d[Len(d) - 1] = 61 THEN SubSeq(d, 1, Len(d) - 2) ELSE SubSeq(d, 1, Len(d) - 1)
    ELSE d

RECURSIVE Base64Decode(_)
Base64Decode(d) ==
    IF Len(d) < 2 THEN << >>
    ELSE LET v1 == SextetValue(d[1])
             v2 == SextetValue(d[2])
         IN IF Len(d) = 2 THEN <<v1 * 4 + (v2 \div 16)>>
            ELSE LET v3 == SextetValue(d[3]) IN
                 IF Len(d) = 3 THEN <<v1 * 4 + (v2 \div 16), (v2 % 16) * 16 + (v3 \div 4)>>
                 ELSE <<v1 * 4 + (v2 \div 16), (v2 % 16) * 16 + (v3 \div 4),
                        (v3 % 4) * 64 + SextetValue(d[4])>>
                      \o Base64Decode(SubSeq(d, 5, Len(d)))

\* throws InvalidCharacterError on data that is not forgiving-base64
atob(v) ==
    LET d == StripPadding(SelectSeq(StringOf(v), LAMBDA c : ~IsAsciiWhitespace(c))) IN
    IF Len(d) % 4 = 1 THEN Throw
    ELSE IF \E i \in 1..Len(d) : SextetValue(d[i]) = -1 THEN Throw
    ELSE Return(Base64Decode(d))

---------------------------------------------------------------------------
(* decodeURIComponent, ECMA-262 Decode(string, empty reserved set) *)

\* value of a hexadecimal digit, -1 for any other character
HexValue(c) ==
    IF c >= 48 /\ c <= 57 THEN c - 48
    ELSE IF c >= 65 /\ c <= 70 THEN c - 55
    ELSE IF c >= 97 /\ c <= 102 THEN c - 87 ELSE -1

\* s[k..k+2] is "%XX"
IsEscapeAt(s, k) ==
    /\ k + 2 <= Len(s)
    /\ s[k] = 37
    /\ HexValue(s[k + 1]) >= 0
    /\ HexValue(s[k + 2]) >= 0

EscapeByteAt(s, k) == HexValue(s[k + 1]) * 16 + HexValue(s[k + 2])

\* number of leading 1 bits of an octet (5 stands for five or more)
LeadingOnes(b) ==
    IF b < 128 THEN 0 ELSE IF b < 192 THEN 1 ELSE IF b < 224 THEN 2
    ELSE IF b < 240 THEN 3 ELSE IF b < 248 THEN 4 ELSE 5

\* the code point of a well-formed UTF-8 sequence of 2..4 octets, -1 when ill-formed
UTF8CodePoint(o) ==
    LET n == Len(o)
        cont == \A j \in 2..n : o[j] >= 128 /\ o[j] < 192
        cp == IF n = 2 THEN (o[1] - 192) * 64 + (o[2] - 128)
              ELSE IF n = 3 THEN (o[1] - 224) * 4096 + (o[2] - 128) * 64 + (o[3] - 128)
              ELSE (o[1] - 240) * 262144 + (o[2] - 128) * 4096 + (o[3] - 128) * 64 + (o[4] - 128)
        least == IF n = 2 THEN 128 ELSE IF n = 3 THEN 2048 ELSE 65536
    IN IF ~cont THEN -1
       ELSE IF cp < least \/ cp > 1114111 \/ (cp >= 55296 /\ cp <= 57343) THEN -1
       ELSE cp

\* the UTF-16 code units of a code point
UTF16(cp) ==
    IF cp < 65536 THEN <<cp>>
    ELSE <<55296 + ((cp - 65536) \div 1024), 56320 + ((cp - 65536) % 1024)>>

RECURSIVE DecodeFrom(_, _)
DecodeFrom(s, k) ==
    IF k > Len(s) THEN Return(<< >>)
    ELSE IF s[k] # 37 THEN Prepend(<<s[k]>>, DecodeFrom(s, k + 1))
    ELSE IF ~IsEscapeAt(s, k) THEN Throw
    ELSE LET b == EscapeByteAt(s, k)
             n == LeadingOnes(b)
         IN IF n = 0 THEN Prepend(<<b>>, DecodeFrom(s, k + 3))
            ELSE IF n = 1 \/ n > 4 THEN Throw
            ELSE IF k + 3 * n - 1 > Len(s) THEN Throw
            ELSE IF \E j \in 1..(n - 1) : ~IsEscapeAt(s, k + 3 * j) THEN Throw
            ELSE LET octets == [j \in 1..n |-> EscapeByteAt(s, k + 3 * (j - 1))]
                     cp == UTF8CodePoint(octets)
                 IN IF cp = -1 THEN Throw
                    ELSE Prepend(UTF16(cp), DecodeFrom(s, k + 3 * n))

\* throws URIError on a malformed escape or ill-formed UTF-8
decodeURIComponent(v) == DecodeFrom(StringOf(v), 1)

---------------------------------------------------------------------------
(* The credential codec of services/storage.ts *)

\* btoa(encodeURIComponent(str)): an exception of either call propagates
encode(str) ==
    LET u == encodeURIComponent(str) IN
    IF u.threw THEN Throw ELSE btoa(u.value)

\* decode without its catch: the exception of atob or decodeURIComponent escapes
decode_uncaught(str) ==
    LET a == atob(str) IN
    IF a.threw THEN Throw ELSE decodeURIComponent(a.value)

\* try { decodeURIComponent(atob(str)) } catch { str }
decode(str) ==
    LET a == atob(str) IN
    IF a.threw THEN Return(str)
    ELSE LET u == decodeURIComponent(a.value) IN
         IF u.threw THEN Return(str) ELSE u

---------------------------------------------------------------------------
(* localStorage and JSON                                                   *)
(*                                                                         *)
(* The item under the key is absent (getItem gives null), the empty string,*)
(* a text that is no JSON, or the JSON text of a value.  A JSON value is   *)
(* an array of items, or an item: an object, null or a number.  An object  *)
(* is the record of the S3Endpoint properties; `endpoint` stands for the   *)
(* properties the registry only carries along (endpoint, region,           *)
(* forcePathStyle).  A property that is missing, or undefined and so left  *)
(* out by JSON.stringify, reads as Undefined.                              *)

NoItem == [kind |-> "null"]
EmptyText == [kind |-> "empty"]
GarbageText == [kind |-> "garbage"]
JsonText(v) == [kind |-> "json", value |-> v]

JArray(items) == [t |-> "array", items |-> items]
JObject(o) == [t |-> "object", o |-> o]
JNull == [t |-> "null"]
JNumber == [t |-> "number"]

NoFields ==
    [id |-> Undefined, name |-> Undefined, endpoint |-> Undefined,
     accessKeyId |-> Undefined, secretAccessKey |-> Undefined]

\* the JSON array of an array of endpoint objects
ArrayOf(endpoints) == JArray([i \in 1..Len(endpoints) |-> JObject(endpoints[i])])

\* throws SyntaxError on a text that is no JSON
JSON_parse(text) == IF text.kind = "json" THEN Return(text.value) ELSE Throw

JSON_stringify(v) == JsonText(v)

\* !data: getItem gave null or the empty string
IsFalsy(item) == item.kind \in {"null", "empty"}

\* the own properties { ...ep } copies: those of an object, none of a number
SpreadOf(item) == IF item.t = "object" THEN item.o ELSE NoFields

---------------------------------------------------------------------------
(* No application runs while a harness applies a function *)

Idle == [op |-> "none", key |-> << >>, arg |-> JNull, ok |-> TRUE, found |-> FALSE]

NoTriple == [endpointName |-> << >>, bucket |-> << >>, path |-> << >>]

NotParsed == [by |-> "none", endpointName |-> << >>, bucket |-> << >>, path |-> << >>]

NotAssigned == [by |-> "none", value |-> << >>]

NoHashHarness == navIn = NoTriple /\ navAssigned = NotAssigned /\ navOut = NotParsed

NoInput == [kind |-> "none"]

NoOutput == [by |-> "none"]

NoFn == fnIn = NoInput /\ fnOut = NoOutput

NoObj ==
    /\ objects = [of |-> "none", bucket |-> << >>, prefix |-> << >>]
    /\ inFlight = << >> /\ objSteps = 0

NoTabs == tabs = << >> /\ missed = << >>

NoExtra == NoFn /\ NoObj /\ NoTabs

NoGateway ==
    /\ remote = {} /\ buckets = {} /\ loading = FALSE /\ error = "none"
    /\ call = [op |-> "none", arg |-> << >>, by |-> "none", outer |-> "none"]
    /\ unhandled = {} /\ gwSteps = 0

NoNav ==
    /\ hash = << >> /\ selectedBucket = << >> /\ currentPath = << >>
    /\ showObjects = FALSE /\ pending = 0 /\ navSteps = 0

NoAppCore ==
    /\ app = "none"
    /\ lastOp = Idle
    /\ clock = 0
    /\ issued = {}
    /\ editingEndpoint = JNull /\ modalVisible = FALSE /\ view = << >> /\ selectedName = << >>
    /\ s3Client = JNull
    /\ hookEndpoints = << >> /\ selectedEndpoint = JNull /\ hookEditing = JNull /\ showForm = FALSE
    /\ savedConfigs = << >> /\ configsItem = NoItem
    /\ NoNav /\ NoHashHarness /\ NoGateway

NoApp == NoAppCore /\ NoExtra

---------------------------------------------------------------------------
(* The registry of services/storage.ts *)

\* the outcome of a registry operation: whether it threw, and the item it leaves
Stored(item) == [threw |-> FALSE, store |-> item]
Failed(item) == [threw |-> TRUE, store |-> item]

\* ep with its secrets replaced by what the codec makes of them
WithSecrets(ep, key, secret) == [ep EXCEPT !.accessKeyId = key, !.secretAccessKey = secret]

\* endpoints.map(...) with what encode made of each accessKeyId and secretAccessKey,
\* then setItem: a throw of encode leaves the item as it was
SaveEncoded(item, endpoints, keys, secrets) ==
    IF \E i \in 1..Len(endpoints) : keys[i].threw \/ secrets[i].threw
    THEN Failed(item)
    ELSE Stored(JSON_stringify(ArrayOf(
            [i \in 1..Len(endpoints) |->
                WithSecrets(endpoints[i], keys[i].value, secrets[i].value)])))

saveEndpoints(item, endpoints) ==
    SaveEncoded(item, endpoints,
                [i \in 1..Len(endpoints) |-> encode(endpoints[i].accessKeyId)],
                [i \in 1..Len(endpoints) |-> encode(endpoints[i].secretAccessKey)])

\* the objects of a parsed array with what decode made of their secrets
LoadDecoded(items, keys, secrets) ==
    IF \E i \in 1..Len(items) : keys[i].threw \/ secrets[i].threw THEN << >>
    ELSE [i \in 1..Len(items) |->
             WithSecrets(SpreadOf(items[i]), keys[i].value, secrets[i].value)]

\* endpoints.map over the items of the parsed array
LoadMapped(items) ==
    \* ep.accessKeyId of a null ep: a TypeError, caught
    IF \E i \in 1..Len(items) : items[i].t = "null" THEN << >>
    ELSE LoadDecoded(items,
                     [i \in 1..Len(items) |-> decode(SpreadOf(items[i]).accessKeyId)],
                     [i \in 1..Len(items) |-> decode(SpreadOf(items[i]).secretAccessKey)])

\* what loadEndpoints makes of JSON.parse(data)
LoadParsed(parsed) ==
    IF parsed.threw THEN << >>
    \* endpoints.map is not a function: a TypeError, caught
    ELSE IF parsed.value.t # "array" THEN << >>
    ELSE LoadMapped(parsed.value.items)

\* decodes accessKeyId and leaves secretAccessKey as stored
loadEndpoints_keyonly(item) ==
    IF IsFalsy(item) THEN << >>
    ELSE LET parsed == JSON_parse(item) IN
         IF parsed.threw \/ parsed.value.t # "array" THEN << >>
         ELSE LET items == parsed.value.items IN
              IF \E i \in 1..Len(items) : items[i].t = "null" THEN << >>
              ELSE [i \in 1..Len(items) |->
                       [SpreadOf(items[i]) EXCEPT
                           !.accessKeyId = decode(SpreadOf(items[i]).accessKeyId).value]]

loadEndpoints(item) ==
    IF IsFalsy(item) THEN << >> ELSE LoadParsed(JSON_parse(item))

\* the index of the last endpoint with this name
FindIndexByName_last(endpoints, name) ==
    IF \E i \in 1..Len(endpoints) : endpoints[i].name = name
    THEN CHOOSE i \in 1..Len(endpoints) :
            /\ endpoints[i].name = name
            /\ \A j \in (i + 1)..Len(endpoints) : endpoints[j].name # name
    ELSE 0

\* the index of the first endpoint with this name, 0 for findIndex's -1
FindIndexByName(endpoints, name) ==
    IF \E i \in 1..Len(endpoints) : endpoints[i].name = name
    THEN CHOOSE i \in 1..Len(endpoints) :
            /\ endpoints[i].name = name
            /\ \A j \in 1..(i - 1) : endpoints[j].name # name
    ELSE 0

addEndpoint(item, endpoint) ==
    saveEndpoints(item, Append(loadEndpoints(item), endpoint))

\* endpoints[index] = endpoint and the save, when findIndex found the name
UpdateAt(item, endpoints, index, endpoint) ==
    IF index > 0
    THEN saveEndpoints(item, [endpoints EXCEPT ![index] = endpoint])
    ELSE Stored(item)

UpdateIn(item, endpoints, endpoint) ==
    UpdateAt(item, endpoints, FindIndexByName(endpoints, endpoint.name), endpoint)

\* adds the profile when no entry has its name
updateEndpoint_upsert(item, endpoint) ==
    LET endpoints == loadEndpoints(item)
        index == FindIndexByName(endpoints, endpoint.name)
    IN IF index > 0
       THEN saveEndpoints(item, [endpoints EXCEPT ![index] = endpoint])
       ELSE saveEndpoints(item, Append(endpoints, endpoint))

updateEndpoint(item, endpoint) == UpdateIn(item, loadEndpoints(item), endpoint)

\* removes the first entry of that name only
deleteEndpoint_first(item, name) ==
    LET endpoints == loadEndpoints(item)
        index == FindIndexByName(endpoints, name)
    IN saveEndpoints(item, [i \in 1..(Len(endpoints) - (IF index > 0 THEN 1 ELSE 0)) |->
                                IF index > 0 /\ i >= index THEN endpoints[i + 1] ELSE endpoints[i]])

deleteEndpoint(item, name) ==
    saveEndpoints(item, SelectSeq(loadEndpoints(item), LAMBDA ep : ep.name # name))

---------------------------------------------------------------------------
(* The registry of services/s3Service.ts *)

s3Service_saveEndpoints(endpoints) == JSON_stringify(ArrayOf(endpoints))

\* the parsed value itself, whatever its shape
s3Service_loadEndpoints(item) ==
    IF IsFalsy(item) THEN JArray(<< >>)
    ELSE LET parsed == JSON_parse(item) IN
         IF parsed.threw THEN JArray(<< >>) ELSE parsed.value

---------------------------------------------------------------------------
(* Load harness: each loadEndpoints is applied to every bounded content of *)
(* the backing record, also one no save of this program wrote              *)

\* stored forms of (accessKeyId, secretAccessKey): encode("a") with encode of e-acute,
\* plaintext "abcd" with "not-valid-encoded-data", and "JQ==" with encode("a")
StoredSecretForms ==
    { << <<89, 81, 61, 61>>, <<74, 85, 77, 122, 74, 85, 69, 53>> >>,
      << <<97, 98, 99, 100>>,
         <<110, 111, 116, 45, 118, 97, 108, 105, 100, 45, 101, 110, 99, 111, 100, 101, 100, 45, 100, 97, 116, 97>> >>,
      << <<74, 81, 61, 61>>, <<89, 81, 61, 61>> >> }

\* a stored profile record named "a"
StoredProfile(forms) ==
    [id |-> Undefined, name |-> <<97>>, endpoint |-> <<117>>,
     accessKeyId |-> forms[1], secretAccessKey |-> forms[2]]

LoadItems == {JNull, JNumber, JObject(NoFields)} \cup {JObject(StoredProfile(f)) : f \in StoredSecretForms}

RECURSIVE ItemArrays(_)
ItemArrays(n) ==
    IF n = 0 THEN {<< >>}
    ELSE LET shorter == ItemArrays(n - 1) IN
         shorter \cup {Append(a, x) : a \in {b \in shorter : Len(b) = n - 1}, x \in LoadItems}

LoadInputs ==
    {NoItem, EmptyText, GarbageText, JsonText(JNull), JsonText(JNumber), JsonText(JObject(NoFields))}
    \cup {JsonText(JArray(a)) : a \in ItemArrays(MaxItems)}

NotLoaded == [by |-> "none", threw |-> FALSE, value |-> JNull]

LoadInit ==
    /\ localStorage \in LoadInputs
    /\ loaded = NotLoaded
    /\ cin = << >> /\ cenc = NotRun /\ cdec = NotRun
    /\ NoApp

\* loadEndpoints() of services/storage.ts
LoadStorage ==
    /\ loaded' = [by |-> "storage", threw |-> FALSE, value |-> ArrayOf(loadEndpoints(localStorage))]
    /\ UNCHANGED <<localStorage, codecVars, appVars>>

\* loadEndpoints() of services/s3Service.ts
LoadService ==
    /\ loaded' = [by |-> "s3Service", threw |-> FALSE, value |-> s3Service_loadEndpoints(localStorage)]
    /\ UNCHANGED <<localStorage, codecVars, appVars>>

LoadNext == LoadStorage \/ LoadService

SpecLoad == LoadInit /\ [][LoadNext]_vars

---------------------------------------------------------------------------
(* Codec harness: every bounded string is handed to encode and to decode *)

\* "a", "%", "-", "=", "J", "Q", e-acute, a high and a low surrogate
CodecAlphabet == {97, 37, 45, 61, 74, 81, 233, 55357, 56832}

RECURSIVE StringsUpTo(_)
StringsUpTo(n) ==
    IF n = 0 THEN {<< >>}
    ELSE LET shorter == StringsUpTo(n - 1) IN
         shorter \cup {Append(s, c) : s \in {t \in shorter : Len(t) = n - 1}, c \in CodecAlphabet}

\* "not-valid-encoded-data", "JQ==" (base64 of "%"), "YQ==" (encode("a")), "abcd",
\* "JUMzJUE5" (encode of e-acute), "JUMz" (base64 of "%C3") and "JUVEJUEwJTgw" (base64 of
\* "%ED%A0%80", the UTF-8 form of a surrogate)
CodecSamples ==
    { <<110, 111, 116, 45, 118, 97, 108, 105, 100, 45, 101, 110, 99, 111, 100, 101, 100, 45, 100, 97, 116, 97>>,
      <<74, 81, 61, 61>>,
      <<89, 81, 61, 61>>,
      <<97, 98, 99, 100>>,
      <<74, 85, 77, 122, 74, 85, 69, 53>>,
      <<74, 85, 77, 122>>,
      <<74, 85, 86, 69, 74, 85, 69, 119, 74, 84, 103, 119>> }

CodecInputs == StringsUpTo(MaxLen) \cup CodecSamples

CodecInit ==
    /\ cin \in CodecInputs
    /\ cenc = NotRun
    /\ cdec = NotRun
    /\ localStorage = NoItem
    /\ loaded = NotLoaded
    /\ NoApp

\* encode(cin)
CodecEncode ==
    /\ cenc = NotRun
    /\ cdec = NotRun
    /\ cenc' = encode(cin)
    /\ UNCHANGED <<cin, cdec, localStorage, loaded, appVars>>

\* decode(encode(cin)), when encode returned
CodecDecodeEncoded ==
    /\ cenc # NotRun
    /\ ~cenc.threw
    /\ cdec = NotRun
    /\ cdec' = decode(cenc.value)
    /\ UNCHANGED <<cin, cenc, localStorage, loaded, appVars>>

\* decode(cin): the stored form is whatever the record holds
CodecDecodeRaw ==
    /\ cenc = NotRun
    /\ cdec = NotRun
    /\ cdec' = decode(cin)
    /\ UNCHANGED <<cin, cenc, localStorage, loaded, appVars>>

CodecNext == CodecEncode \/ CodecDecodeEncoded \/ CodecDecodeRaw

SpecCodec == CodecInit /\ [][CodecNext]_vars

---------------------------------------------------------------------------
(* The application.  The repository holds three iterations of it, and a    *)
(* page runs one of them:                                                  *)
(*   "manager": EndpointManager on services/storage.ts; a profile carries  *)
(*              no id and is keyed by its name (the table's rowKey);       *)
(*   "hook":    useS3Browser on services/s3Service.ts with its             *)
(*              EndpointManager; a profile is keyed by a generated id;     *)
(*   "config":  S3Config with its saved configurations.                    *)
(* Handlers run on user events, one at a time; at least one millisecond    *)
(* passes between two events, so every handler reads a later Date.now().   *)

\* the names and the credentials a user types: "a" and "b"; ("abcd", e-acute),
\* ("a", U+1F600 as its surrogate pair) and ("a", an unpaired high surrogate)
Names == {<<97>>, <<98>>}
Credentials == { <<<<97, 98, 99, 100>>, <<233>>>>, <<<<97>>, <<55357, 56832>>>>, <<<<97>>, <<55357>>>> }

\* what form.validateFields() resolves to, and formData: no id among the fields
FormValue(n, c) ==
    [id |-> Undefined, name |-> n, endpoint |-> <<117>>,
     accessKeyId |-> c[1], secretAccessKey |-> c[2]]

FormValues == {FormValue(n, c) : n \in Names, c \in Credentials}

\* { ...editingEndpoint, ...values }: the form's fields over the edited profile's
Merge(editing, values) == [values EXCEPT !.id = editing.id]

Op(op, key, arg, ok, found) == [op |-> op, key |-> key, arg |-> arg, ok |-> ok, found |-> found]

NoCodec == cin = << >> /\ cenc = NotRun /\ cdec = NotRun

Init ==
    /\ app \in {"manager", "hook", "config"}
    /\ localStorage = NoItem
    /\ lastOp = Idle
    /\ clock = 0
    /\ issued = {}
    /\ editingEndpoint = JNull /\ modalVisible = FALSE /\ view = << >> /\ selectedName = << >>
    /\ s3Client = JNull
    /\ hookEndpoints = << >> /\ selectedEndpoint = JNull /\ hookEditing = JNull /\ showForm = FALSE
    /\ savedConfigs = << >> /\ configsItem = NoItem
    /\ NoNav /\ NoHashHarness /\ NoGateway /\ NoExtra
    /\ loaded = NotLoaded
    /\ NoCodec

---------------------------------------------------------------------------
(* EndpointManager on services/storage.ts *)

\* endpoints.find(ep => ep.name === name), null for undefined
FoundAt(endpoints, index) == IF index > 0 THEN endpoints[index] ELSE JNull

Found(endpoints, name) == FoundAt(endpoints, FindIndexByName(endpoints, name))

\* App's s3Client: createS3Client(endpoints.find(ep => ep.name === selectedEndpoint)),
\* null for no selection and for a name the registry does not hold
ClientFor(item, name) ==
    IF name = << >> THEN JNull ELSE Found(loadEndpoints(item), name)

\* the component renders: const endpoints = loadEndpoints()
Render(item) == loadEndpoints(item)

ManagerFrame ==
    UNCHANGED <<clock, issued, hookVars, cfgVars, navVars, hashVars, gwVars, extraVars, loaded,
               codecVars, app>>

\* the Add button; the open modal's mask covers the table and the button
handleAdd ==
    /\ app = "manager" /\ ~modalVisible
    /\ editingEndpoint' = JNull
    /\ modalVisible' = TRUE
    /\ view' = Render(localStorage)
    /\ lastOp' = Op("handleAdd", << >>, JNull, TRUE, FALSE)
    /\ UNCHANGED <<localStorage, selectedName, s3Client>>
    /\ ManagerFrame

\* the Edit button of a row of the table
handleEdit ==
    /\ app = "manager" /\ ~modalVisible
    /\ \E i \in 1..Len(view) :
        /\ editingEndpoint' = view[i]
        /\ lastOp' = Op("handleEdit", view[i].name, view[i], TRUE, FALSE)
    /\ modalVisible' = TRUE
    /\ view' = Render(localStorage)
    /\ UNCHANGED <<localStorage, selectedName, s3Client>>
    /\ ManagerFrame

\* the confirmed Delete of a row; no state of the component changes, so the
\* table keeps the rows of the last render
handleDelete ==
    /\ app = "manager" /\ ~modalVisible
    /\ \E i \in 1..Len(view) :
        \E r \in {deleteEndpoint(localStorage, view[i].name)} :
        /\ localStorage' = r.store
        /\ lastOp' = Op("handleDelete", view[i].name, view[i], ~r.threw,
                       FindIndexByName(loadEndpoints(localStorage), view[i].name) > 0)
    /\ UNCHANGED <<editingEndpoint, modalVisible, view, selectedName, s3Client>>
    /\ ManagerFrame

\* the modal's OK with an edited profile: whatever updateEndpoint throws is
\* caught with the validation errors, and the modal stays open
SubmitEdit(values) ==
    /\ editingEndpoint # JNull
    /\ \E updated \in {Merge(editingEndpoint, values)} :
       \E r \in {updateEndpoint(localStorage, updated)} :
          /\ lastOp' = Op("submitEdit", editingEndpoint.name, updated, ~r.threw,
                          FindIndexByName(loadEndpoints(localStorage), updated.name) > 0)
          /\ localStorage' = r.store
          /\ modalVisible' = r.threw
          /\ view' = IF r.threw THEN view ELSE Render(r.store)
          \* onSelectEndpoint(updated.name) only when it is the selected name already
          /\ UNCHANGED <<editingEndpoint, selectedName, s3Client>>

\* the modal's OK with a new profile
SubmitAdd(values) ==
    /\ editingEndpoint = JNull
    /\ Len(loadEndpoints(localStorage)) < MaxEndpoints
    /\ \E r \in {addEndpoint(localStorage, values)} :
       /\ lastOp' = Op("submitAdd", values.name, values, ~r.threw, FALSE)
       /\ localStorage' = r.store
       /\ modalVisible' = r.threw
       /\ view' = IF r.threw THEN view ELSE Render(r.store)
       /\ UNCHANGED <<editingEndpoint, selectedName, s3Client>>

handleSubmit ==
    /\ app = "manager" /\ modalVisible
    /\ \E values \in FormValues : SubmitEdit(values) \/ SubmitAdd(values)
    /\ ManagerFrame

handleCancel ==
    /\ app = "manager" /\ modalVisible
    /\ modalVisible' = FALSE
    /\ editingEndpoint' = JNull
    /\ view' = Render(localStorage)
    /\ lastOp' = Op("handleCancel", << >>, JNull, TRUE, FALSE)
    /\ UNCHANGED <<localStorage, selectedName, s3Client>>
    /\ ManagerFrame

\* a click on a row: the parent renders again only when the name changes
handleSelect ==
    /\ app = "manager" /\ ~modalVisible
    /\ \E i \in 1..Len(view) :
        /\ selectedName' = view[i].name
        /\ view' = IF view[i].name # selectedName THEN Render(localStorage) ELSE view
        \* useMemo runs again when selectedEndpoint changed
        /\ s3Client' = IF view[i].name # selectedName
                       THEN ClientFor(localStorage, view[i].name) ELSE s3Client
        /\ lastOp' = Op("handleSelect", view[i].name, view[i], TRUE, FALSE)
    /\ UNCHANGED <<localStorage, editingEndpoint, modalVisible>>
    /\ ManagerFrame

\* the page is loaded again: the component's state starts over, the hash keeps the name
ManagerReload ==
    /\ app = "manager"
    /\ editingEndpoint' = JNull
    /\ modalVisible' = FALSE
    /\ view' = Render(localStorage)
    /\ lastOp' = Op("reload", << >>, JNull, TRUE, FALSE)
    /\ s3Client' = ClientFor(localStorage, selectedName)
    /\ UNCHANGED <<localStorage, selectedName>>
    /\ ManagerFrame

ManagerNext ==
    \/ handleAdd \/ handleEdit \/ handleDelete \/ handleSubmit
    \/ handleCancel \/ handleSelect \/ ManagerReload

---------------------------------------------------------------------------
(* useS3Browser on services/s3Service.ts, with its EndpointManager *)

\* what Math.random().toString(36).substring(2, 11) gives
RandomSuffixes == {0, 1}

\* `endpoint-${Date.now()}-${suffix}`
generateEndpointId(now, suffix) == <<now, suffix>>

\* the array loadEndpoints() returned, as the state holds it
EndpointsOf(v) == [i \in 1..Len(v.items) |-> v.items[i].o]

\* updatedEndpoints[0] || null
FirstOrNull(eps) == IF Len(eps) > 0 THEN eps[1] ELSE JNull

HookFrame == UNCHANGED <<mgrVars, cfgVars, navVars, hashVars, gwVars, extraVars, loaded,
               codecVars, app>>

\* the effect that runs on mount
HookMount ==
    /\ app = "hook"
    /\ LET storedEndpoints == EndpointsOf(s3Service_loadEndpoints(localStorage)) IN
        /\ hookEndpoints' = storedEndpoints
        /\ selectedEndpoint' = FirstOrNull(storedEndpoints)
    /\ hookEditing' = JNull
    /\ showForm' = FALSE
    /\ lastOp' = Op("mount", << >>, JNull, TRUE, FALSE)
    /\ UNCHANGED <<localStorage, clock, issued>>
    /\ HookFrame

\* the form is an overlay over the list
handleOpenAddForm ==
    /\ app = "hook" /\ ~showForm
    /\ hookEditing' = JNull
    /\ showForm' = TRUE
    /\ lastOp' = Op("handleOpenAddForm", << >>, JNull, TRUE, FALSE)
    /\ UNCHANGED <<localStorage, clock, issued, hookEndpoints, selectedEndpoint>>
    /\ HookFrame

handleOpenEditForm ==
    /\ app = "hook" /\ ~showForm
    /\ \E i \in 1..Len(hookEndpoints) :
        /\ hookEditing' = hookEndpoints[i]
        /\ lastOp' = Op("handleOpenEditForm", hookEndpoints[i].id, hookEndpoints[i], TRUE, FALSE)
    /\ showForm' = TRUE
    /\ UNCHANGED <<localStorage, clock, issued, hookEndpoints, selectedEndpoint>>
    /\ HookFrame

handleCloseForm ==
    /\ app = "hook" /\ showForm
    /\ hookEditing' = JNull
    /\ showForm' = FALSE
    /\ lastOp' = Op("handleCloseForm", << >>, JNull, TRUE, FALSE)
    /\ UNCHANGED <<localStorage, clock, issued, hookEndpoints, selectedEndpoint>>
    /\ HookFrame

\* useS3Browser.addEndpoint, then onSelect(newEndpoint)
HookAddEndpoint(endpoint, suffix) ==
    LET newEndpoint == [endpoint EXCEPT !.id = generateEndpointId(clock', suffix)]
        updatedEndpoints == Append(hookEndpoints, newEndpoint)
    IN /\ clock < MaxClock
       /\ Len(hookEndpoints) < MaxEndpoints
       /\ clock' = clock + 1
       /\ hookEndpoints' = updatedEndpoints
       /\ localStorage' = s3Service_saveEndpoints(updatedEndpoints)
       /\ selectedEndpoint' = newEndpoint
       /\ lastOp' = Op("addEndpoint", newEndpoint.id, endpoint, TRUE, FALSE)
       /\ issued' = issued \cup {newEndpoint.id}

\* an updateEndpoint that leaves the selected endpoint as it was
HookUpdateEndpoint_keepSelected(endpoint) ==
    LET updatedEndpoints ==
            [i \in 1..Len(hookEndpoints) |->
                IF hookEndpoints[i].id = endpoint.id THEN endpoint ELSE hookEndpoints[i]]
    IN /\ hookEndpoints' = updatedEndpoints
       /\ localStorage' = s3Service_saveEndpoints(updatedEndpoints)
       /\ selectedEndpoint' = selectedEndpoint
       /\ lastOp' = Op("updateEndpoint", endpoint.id, endpoint, TRUE,
                       \E i \in 1..Len(hookEndpoints) : hookEndpoints[i].id = endpoint.id)
       /\ UNCHANGED <<clock, issued>>

\* useS3Browser.updateEndpoint
HookUpdateEndpoint(endpoint) ==
    LET updatedEndpoints ==
            [i \in 1..Len(hookEndpoints) |->
                IF hookEndpoints[i].id = endpoint.id THEN endpoint ELSE hookEndpoints[i]]
    IN /\ hookEndpoints' = updatedEndpoints
       /\ localStorage' = s3Service_saveEndpoints(updatedEndpoints)
       /\ selectedEndpoint' =
            IF selectedEndpoint # JNull /\ selectedEndpoint.id = endpoint.id
            THEN endpoint ELSE selectedEndpoint
       /\ lastOp' = Op("updateEndpoint", endpoint.id, endpoint, TRUE,
                       \E i \in 1..Len(hookEndpoints) : hookEndpoints[i].id = endpoint.id)
       /\ UNCHANGED <<clock, issued>>

\* the form's submit, which closes the form
HookHandleSubmit ==
    /\ app = "hook" /\ showForm
    /\ \E formData \in FormValues :
        IF hookEditing # JNull
        THEN HookUpdateEndpoint([formData EXCEPT !.id = hookEditing.id])
        ELSE \E suffix \in RandomSuffixes : HookAddEndpoint(formData, suffix)
    /\ hookEditing' = JNull
    /\ showForm' = FALSE
    /\ HookFrame

\* useS3Browser.deleteEndpoint, after window.confirm
HookDeleteEndpoint ==
    /\ app = "hook" /\ ~showForm
    /\ \E i \in 1..Len(hookEndpoints) :
        LET endpointId == hookEndpoints[i].id
            updatedEndpoints == SelectSeq(hookEndpoints, LAMBDA e : e.id # endpointId)
        IN /\ hookEndpoints' = updatedEndpoints
           /\ localStorage' = s3Service_saveEndpoints(updatedEndpoints)
           /\ selectedEndpoint' =
                IF selectedEndpoint # JNull /\ selectedEndpoint.id = endpointId
                THEN FirstOrNull(updatedEndpoints) ELSE selectedEndpoint
           /\ lastOp' = Op("deleteEndpoint", endpointId, hookEndpoints[i], TRUE, TRUE)
    /\ UNCHANGED <<clock, issued, hookEditing, showForm>>
    /\ HookFrame

\* a click on a profile of the list
HookSelect ==
    /\ app = "hook" /\ ~showForm
    /\ \E i \in 1..Len(hookEndpoints) :
        /\ selectedEndpoint' = hookEndpoints[i]
        /\ lastOp' = Op("onSelect", hookEndpoints[i].id, hookEndpoints[i], TRUE, FALSE)
    /\ UNCHANGED <<localStorage, clock, issued, hookEndpoints, hookEditing, showForm>>
    /\ HookFrame

HookNext ==
    \/ HookMount \/ handleOpenAddForm \/ handleOpenEditForm \/ handleCloseForm
    \/ HookHandleSubmit \/ HookDeleteEndpoint \/ HookSelect

---------------------------------------------------------------------------
(* EndpointManager keyed by id (components/EndpointManager.tsx), on a registry *)
(* whose update and delete go by id. The component holds the list, its parent  *)
(* the selected profile.                                                       *)

\* generateId() of the registry: an id no earlier profile got
generateId(now) == <<now, 0>>

\* updateEndpoint(profile) of the registry keyed by id: a full replace of the entry
\* of that id, nothing for an id the registry does not hold
updateEndpointById(item, endpoint) ==
    LET endpoints == loadEndpoints(item) IN
    IF \E i \in 1..Len(endpoints) : endpoints[i].id = endpoint.id
    THEN saveEndpoints(item, [i \in 1..Len(endpoints) |->
                                 IF endpoints[i].id = endpoint.id THEN endpoint ELSE endpoints[i]])
    ELSE Stored(item)

\* deleteEndpoint(id) of the registry keyed by id
deleteEndpointById(item, id) ==
    saveEndpoints(item, SelectSeq(loadEndpoints(item), LAMBDA ep : ep.id # id))

\* endpoints.find(ep => ep.name === initialEndpointName) ?? endpoints[0]
MatchedOrFirst(endpoints, name) ==
    IF FindIndexByName(endpoints, name) > 0
    THEN endpoints[FindIndexByName(endpoints, name)] ELSE endpoints[1]

ByIdFrame == UNCHANGED <<mgrVars, cfgVars, navVars, hashVars, gwVars, extraVars, loaded,
                         codecVars, app>>

\* the page is loaded: the list is read, nothing is selected, and the effect selects
\* the profile the hash names, or the first
ById_mount ==
    /\ app = "managerById"
    /\ \E loadedEndpoints \in {loadEndpoints(localStorage)}, initialEndpointName \in Names \cup {<< >>} :
         /\ hookEndpoints' = loadedEndpoints
         /\ selectedEndpoint' = IF Len(loadedEndpoints) > 0
                                THEN MatchedOrFirst(loadedEndpoints, initialEndpointName)
                                ELSE JNull
    /\ hookEditing' = JNull /\ showForm' = FALSE
    /\ lastOp' = Op("mount", << >>, JNull, TRUE, FALSE)
    /\ UNCHANGED <<localStorage, clock, issued>>
    /\ ByIdFrame

ById_handleAdd ==
    /\ app = "managerById" /\ lastOp # Idle /\ ~showForm
    /\ hookEditing' = JNull /\ showForm' = TRUE
    /\ lastOp' = Op("handleAdd", << >>, JNull, TRUE, FALSE)
    /\ UNCHANGED <<localStorage, clock, issued, hookEndpoints, selectedEndpoint>>
    /\ ByIdFrame

ById_handleEdit ==
    /\ app = "managerById" /\ lastOp # Idle /\ ~showForm
    /\ \E i \in 1..Len(hookEndpoints) :
         /\ hookEditing' = hookEndpoints[i]
         /\ lastOp' = Op("handleEdit", hookEndpoints[i].id, hookEndpoints[i], TRUE, FALSE)
    /\ showForm' = TRUE
    /\ UNCHANGED <<localStorage, clock, issued, hookEndpoints, selectedEndpoint>>
    /\ ByIdFrame

\* handleDelete(id): the registry's delete, the list read again, and the first
\* profile left (or none) selected when the deleted one was
ById_handleDelete ==
    /\ app = "managerById" /\ lastOp # Idle /\ ~showForm
    /\ \E i \in 1..Len(hookEndpoints) :
         \E id \in {hookEndpoints[i].id}, r \in {deleteEndpointById(localStorage, hookEndpoints[i].id)} :
            /\ localStorage' = r.store
            /\ lastOp' = Op("byId_handleDelete", id, hookEndpoints[i], ~r.threw, TRUE)
            /\ IF r.threw
               THEN UNCHANGED <<hookEndpoints, selectedEndpoint>>
               ELSE /\ hookEndpoints' = loadEndpoints(r.store)
                    /\ selectedEndpoint' =
                         IF selectedEndpoint # JNull /\ selectedEndpoint.id = id
                         THEN FirstOrNull(loadEndpoints(r.store)) ELSE selectedEndpoint
    /\ UNCHANGED <<clock, issued, hookEditing, showForm>>
    /\ ByIdFrame

\* the modal's OK: an edit replaces the profile and selects it again when it was
\* selected; an add stores the profile under a new id. What the registry throws is
\* caught with the validation errors.
ById_handleSubmit ==
    /\ app = "managerById" /\ showForm
    /\ \E values \in FormValues :
         IF hookEditing # JNull
         THEN \E updated \in {Merge(hookEditing, values)} :
                \E r \in {updateEndpointById(localStorage, updated)} :
                  /\ localStorage' = r.store
                  /\ lastOp' = Op("byId_submitEdit", updated.id, updated, ~r.threw, TRUE)
                  /\ selectedEndpoint' =
                        IF ~r.threw /\ selectedEndpoint # JNull /\ selectedEndpoint.id = updated.id
                        THEN updated ELSE selectedEndpoint
                  /\ hookEndpoints' = IF r.threw THEN hookEndpoints ELSE loadEndpoints(r.store)
                  /\ showForm' = r.threw
                  /\ UNCHANGED <<clock, issued, hookEditing>>
         ELSE /\ clock < MaxClock /\ Len(hookEndpoints) < MaxEndpoints
              /\ clock' = clock + 1
              /\ \E newEndpoint \in {[values EXCEPT !.id = generateId(clock + 1)]} :
                   \E r \in {addEndpoint(localStorage, newEndpoint)} :
                     /\ localStorage' = r.store
                     /\ lastOp' = Op("byId_submitAdd", newEndpoint.id, newEndpoint, ~r.threw, FALSE)
                     /\ hookEndpoints' = IF r.threw THEN hookEndpoints ELSE loadEndpoints(r.store)
                     /\ showForm' = r.threw
                     /\ issued' = issued \cup {newEndpoint.id}
              /\ UNCHANGED <<selectedEndpoint, hookEditing>>
    /\ ByIdFrame

ById_handleCancel ==
    /\ app = "managerById" /\ showForm
    /\ showForm' = FALSE
    /\ lastOp' = Op("handleCancel", << >>, JNull, TRUE, FALSE)
    /\ UNCHANGED <<localStorage, clock, issued, hookEndpoints, selectedEndpoint, hookEditing>>
    /\ ByIdFrame

\* handleSelect(endpoint): a row of the list is clicked
ById_handleSelect ==
    /\ app = "managerById" /\ lastOp # Idle /\ ~showForm
    /\ \E i \in 1..Len(hookEndpoints) :
         /\ selectedEndpoint' = hookEndpoints[i]
         /\ lastOp' = Op("handleSelect", hookEndpoints[i].id, hookEndpoints[i], TRUE, FALSE)
    /\ UNCHANGED <<localStorage, clock, issued, hookEndpoints, hookEditing, showForm>>
    /\ ByIdFrame

ByIdNext ==
    \/ ById_mount \/ ById_handleAdd \/ ById_handleEdit \/ ById_handleDelete
    \/ ById_handleSubmit \/ ById_handleCancel \/ ById_handleSelect

\* the two variants that key the selection by id
SelectInit ==
    /\ app \in {"hook", "managerById"}
    /\ localStorage = NoItem
    /\ lastOp = Idle /\ clock = 0 /\ issued = {}
    /\ editingEndpoint = JNull /\ modalVisible = FALSE /\ view = << >> /\ selectedName = << >>
    /\ s3Client = JNull
    /\ hookEndpoints = << >> /\ selectedEndpoint = JNull /\ hookEditing = JNull /\ showForm = FALSE
    /\ savedConfigs = << >> /\ configsItem = NoItem
    /\ NoNav /\ NoHashHarness /\ NoGateway /\ NoExtra
    /\ loaded = NotLoaded /\ NoCodec

SelectNext == HookNext \/ ByIdNext

SpecSelect == SelectInit /\ [][SelectNext]_vars

---------------------------------------------------------------------------
(* S3Config and its saved configurations *)

\* a SavedConfig: the access key id is kept as typed, the secret is not kept
SavedConfig(now, configName, key) ==
    [id |-> <<now>>, name |-> configName, accessKeyId |-> key, createdAt |-> now]

ConfigsOf(item) ==
    IF IsFalsy(item) \/ JSON_parse(item).threw THEN << >>
    ELSE [i \in 1..Len(JSON_parse(item).value.items) |-> JSON_parse(item).value.items[i].o]

ConfigFrame ==
    UNCHANGED <<localStorage, mgrVars, hookVars, navVars, hashVars, gwVars, extraVars, loaded,
               codecVars, app>>

\* the Save button of the save dialog, with a name that is not blank
saveConfiguration ==
    /\ app = "config"
    /\ clock < MaxClock
    /\ Len(savedConfigs) < MaxEndpoints
    /\ clock' = clock + 1
    /\ \E configName \in Names, c \in Credentials :
        LET newConfig == SavedConfig(clock', configName, c[1])
            updated == Append(savedConfigs, newConfig)
        IN /\ savedConfigs' = updated
           /\ configsItem' = JSON_stringify(ArrayOf(updated))
           /\ lastOp' = Op("saveConfiguration", newConfig.id, newConfig, TRUE, FALSE)
           /\ issued' = issued \cup {newConfig.id}
    /\ ConfigFrame

\* the Delete button of a saved configuration, after window.confirm
deleteConfiguration ==
    /\ app = "config"
    /\ \E i \in 1..Len(savedConfigs) :
        LET id == savedConfigs[i].id
            updated == SelectSeq(savedConfigs, LAMBDA c : c.id # id)
        IN /\ savedConfigs' = updated
           /\ configsItem' = JSON_stringify(ArrayOf(updated))
           /\ lastOp' = Op("deleteConfiguration", id, savedConfigs[i], TRUE, TRUE)
    /\ UNCHANGED <<clock, issued>>
    /\ ConfigFrame

\* the page is loaded again: useState's initializer reads the item
ConfigReload ==
    /\ app = "config"
    /\ savedConfigs' = ConfigsOf(configsItem)
    /\ lastOp' = Op("reload", << >>, JNull, TRUE, FALSE)
    /\ UNCHANGED <<clock, issued, configsItem>>
    /\ ConfigFrame

ConfigNext == saveConfiguration \/ deleteConfiguration \/ ConfigReload

---------------------------------------------------------------------------
(* The specification of the application *)

Next == ManagerNext \/ HookNext \/ ConfigNext

Spec == Init /\ [][Next]_vars

---------------------------------------------------------------------------
(* The location hash: window.location.hash, parseHash and updateHash *)

\* the fragment percent-encode set of the URL parser: C0 controls, space, '"', '<',
\* '>', '`' and everything above '~'
InFragmentEncodeSet(c) == c <= 31 \/ c > 126 \/ c \in {32, 34, 60, 62, 96}

\* the URL parser in fragment state: tabs and newlines are dropped, the code points
\* of the encode set become the "%XX" of their UTF-8 octets (U+FFFD for an unpaired
\* surrogate)
RECURSIVE FragmentFrom(_, _)
FragmentFrom(s, k) ==
    IF k > Len(s) THEN << >>
    ELSE IF s[k] \in {9, 10, 13} THEN FragmentFrom(s, k + 1)
    ELSE IF IsHighSurrogate(s[k]) /\ k + 1 <= Len(s) /\ IsLowSurrogate(s[k + 1])
         THEN PercentAll(UTF8(PairCodePoint(s[k], s[k + 1]))) \o FragmentFrom(s, k + 2)
    ELSE IF IsHighSurrogate(s[k]) \/ IsLowSurrogate(s[k])
         THEN PercentAll(UTF8(65533)) \o FragmentFrom(s, k + 1)
    ELSE IF InFragmentEncodeSet(s[k]) THEN PercentAll(UTF8(s[k])) \o FragmentFrom(s, k + 1)
    ELSE <<s[k]>> \o FragmentFrom(s, k + 1)

\* window.location.hash = value: one leading '#' is dropped, the rest is parsed as
\* the fragment
setLocationHash(value) ==
    FragmentFrom(IF Len(value) > 0 /\ Head(value) = 35 THEN Tail(value) ELSE value, 1)

\* window.location.hash: "" for an empty fragment, else '#' and the fragment
getLocationHash(fragment) == IF fragment = << >> THEN << >> ELSE <<35>> \o fragment

\* hash.slice(1)
Slice1(s) == IF Len(s) = 0 THEN << >> ELSE Tail(s)

\* s.split('/')
RECURSIVE Split(_)
Split(s) ==
    IF \A i \in 1..Len(s) : s[i] # 47 THEN <<s>>
    ELSE LET k == CHOOSE i \in 1..Len(s) : s[i] = 47 /\ \A j \in 1..(i - 1) : s[j] # 47
         IN <<SubSeq(s, 1, k - 1)>> \o Split(SubSeq(s, k + 1, Len(s)))

\* parts.join('/')
RECURSIVE Join(_)
Join(parts) ==
    IF Len(parts) = 0 THEN << >>
    ELSE IF Len(parts) = 1 THEN parts[1]
    ELSE parts[1] \o <<47>> \o Join(Tail(parts))

\* parts.slice(n)
SliceFrom(parts, n) == SubSeq(parts, n + 1, Len(parts))

Triple(e, b, p) == [endpointName |-> e, bucket |-> b, path |-> p]

\* keeps the third segment only as the path
parseHash_third(fragment) ==
    LET h == Slice1(getLocationHash(fragment)) IN
    IF h = << >> THEN Triple(<< >>, << >>, << >>)
    ELSE LET parts == Split(h) IN
         Triple(parts[1],
                IF Len(parts) > 1 THEN parts[2] ELSE << >>,
                IF Len(parts) > 2 THEN parts[3] ELSE << >>)

\* parseHash of App
parseHash(fragment) ==
    LET h == Slice1(getLocationHash(fragment)) IN
    IF h = << >> THEN Triple(<< >>, << >>, << >>)
    ELSE LET parts == Split(h) IN
         Triple(parts[1],
                IF Len(parts) > 1 THEN parts[2] ELSE << >>,
                IF Len(parts) > 2 THEN Join(SliceFrom(parts, 2)) ELSE << >>)

\* joins the three segments whatever is absent
updateHash_joined(endpointName, bucket, path) ==
    IF endpointName = << >> THEN << >>
    ELSE endpointName \o <<47>> \o bucket \o <<47>> \o path

\* what updateHash of App assigns to window.location.hash
updateHash(endpointName, bucket, path) ==
    IF endpointName = << >> THEN << >>
    ELSE IF bucket = << >> THEN endpointName
    ELSE IF path = << >> THEN endpointName \o <<47>> \o bucket
    ELSE endpointName \o <<47>> \o bucket \o <<47>> \o path

\* parseHash of the first App, whose hash holds bucket and path only; a null bucket
\* is "" here, and no endpoint name is read
parseHash0(fragment) ==
    LET h == Slice1(getLocationHash(fragment)) IN
    IF h = << >> THEN Triple(<< >>, << >>, << >>)
    ELSE LET parts == Split(h) IN
         Triple(<< >>, parts[1], Join(SliceFrom(parts, 1)))

\* what updateHash of the first App assigns
updateHash0(bucket, path) ==
    IF bucket = << >> THEN << >>
    ELSE IF path # << >> THEN bucket \o <<47>> \o path
    ELSE bucket

---------------------------------------------------------------------------
(* Navigation harness: updateHash is handed every bounded triple, parseHash *)
(* reads every bounded location                                             *)

\* "a", "/" and " "
NavAlphabet == {97, 47, 32}

RECURSIVE NavStringsUpTo(_)
NavStringsUpTo(n) ==
    IF n = 0 THEN {<< >>}
    ELSE LET shorter == NavStringsUpTo(n - 1) IN
         shorter \cup {Append(s, c) : s \in {u \in shorter : Len(u) = n - 1}, c \in NavAlphabet}

HasSlash(s) == \E i \in 1..Len(s) : s[i] = 47

\* names hold no '/'
NavNames == {s \in NavStringsUpTo(MaxNavLen - 2) : ~HasSlash(s)}

\* ("prod", "assets", "images/2024/")
SampleTriple ==
    Triple(<<112, 114, 111, 100>>, <<97, 115, 115, 101, 116, 115>>,
           <<105, 109, 97, 103, 101, 115, 47, 50, 48, 50, 52, 47>>)

NavTriples ==
    {Triple(e, b, p) : e \in NavNames, b \in NavNames, p \in NavStringsUpTo(MaxNavLen - 2)}
    \cup {SampleTriple}

\* the fragments a location can hold: whatever was typed has gone through the URL parser
NavFragments ==
    {setLocationHash(s) : s \in NavStringsUpTo(MaxNavLen)}
    \cup {updateHash(SampleTriple.endpointName, SampleTriple.bucket, SampleTriple.path)}

HashInit ==
    /\ \/ navIn \in NavTriples /\ hash = << >>
       \/ navIn = NoTriple /\ hash \in NavFragments
    /\ navAssigned = NotAssigned
    /\ navOut = NotParsed
    /\ app = "none" /\ lastOp = Idle /\ clock = 0 /\ issued = {}
    /\ editingEndpoint = JNull /\ modalVisible = FALSE /\ view = << >> /\ selectedName = << >>
    /\ s3Client = JNull
    /\ hookEndpoints = << >> /\ selectedEndpoint = JNull /\ hookEditing = JNull /\ showForm = FALSE
    /\ savedConfigs = << >> /\ configsItem = NoItem
    /\ selectedBucket = << >> /\ currentPath = << >>
    /\ showObjects = FALSE /\ pending = 0 /\ navSteps = 0
    /\ NoGateway /\ NoExtra
    /\ localStorage = NoItem /\ loaded = NotLoaded
    /\ cin = << >> /\ cenc = NotRun /\ cdec = NotRun

HashFrame ==
    UNCHANGED <<navIn, app, lastOp, clock, issued, mgrVars, hookVars, cfgVars,
                selectedBucket, currentPath, showObjects, pending, navSteps, gwVars, extraVars,
                localStorage, loaded, codecVars>>

Parsed(by, triple) ==
    [by |-> by, endpointName |-> triple.endpointName, bucket |-> triple.bucket, path |-> triple.path]

\* updateHash(endpointName, bucket, path) of App
HashUpdate ==
    /\ navAssigned = NotAssigned /\ navOut = NotParsed
    /\ navAssigned' = [by |-> "updateHash",
                       value |-> updateHash(navIn.endpointName, navIn.bucket, navIn.path)]
    /\ hash' = setLocationHash(navAssigned'.value)
    /\ UNCHANGED navOut
    /\ HashFrame

\* parseHash() of App
HashParse ==
    /\ navOut = NotParsed
    /\ navAssigned.by \in {"none", "updateHash"}
    /\ navOut' = Parsed("parseHash", parseHash(hash))
    /\ UNCHANGED <<hash, navAssigned>>
    /\ HashFrame

\* updateHash(bucket, path) of the first App
HashUpdate0 ==
    /\ navAssigned = NotAssigned /\ navOut = NotParsed
    /\ navIn.endpointName = << >>
    /\ navAssigned' = [by |-> "updateHash0", value |-> updateHash0(navIn.bucket, navIn.path)]
    /\ hash' = setLocationHash(navAssigned'.value)
    /\ UNCHANGED navOut
    /\ HashFrame

\* parseHash() of the first App
HashParse0 ==
    /\ navOut = NotParsed
    /\ navAssigned.by \in {"none", "updateHash0"}
    /\ navOut' = Parsed("parseHash0", parseHash0(hash))
    /\ UNCHANGED <<hash, navAssigned>>
    /\ HashFrame

HashNext == HashUpdate \/ HashParse \/ HashUpdate0 \/ HashParse0

SpecHash == HashInit /\ [][HashNext]_vars

---------------------------------------------------------------------------
(* Navigation: App holds the selection and the location hash holds its     *)
(* shareable form. app = "nav" is App, whose handlers write the hash only   *)
(* and whose state follows from hashchange events; app = "nav0" is the      *)
(* first App, whose handlers set the state and whose effect writes the hash *)
(* (its hash holds bucket and path only). The browser queues one hashchange *)
(* event for every assignment that changes the fragment.                    *)

\* most user actions (clicks, edits of the address bar, reloads) that are followed
MaxNavSteps == 3

\* profile names the endpoint list offers: "a" and "b c"
NavEndpointNames == {<<97>>, <<98, 32, 99>>}

\* bucket names a listing returns: "b" and "c"
NavBucketNames == {<<98>>, <<99>>}

\* paths the object views hand to onPathChange: "", "x/", "x/y" and "x y/"
NavPathNames == {<< >>, <<120, 47>>, <<120, 47, 121>>, <<120, 32, 121, 47>>}

\* what a user types after the '#': "", "a/b/x/", "/b", "a//x", "b/", "a b"
NavTyped ==
    {<< >>, <<97, 47, 98, 47, 120, 47>>, <<47, 98>>, <<97, 47, 47, 120>>, <<98, 47>>,
     <<97, 32, 98>>}

Selection == Triple(selectedName, selectedBucket, currentPath)

StartsWith(s, prefix) == Len(prefix) <= Len(s) /\ SubSeq(s, 1, Len(prefix)) = prefix

\* the paths the views offer at `path`: the keys listed under it, its parents and ''
Offered(path) == {p \in NavPathNames : StartsWith(p, path) \/ StartsWith(path, p)}

NavInit ==
    /\ app \in {"nav", "nav0"}
    /\ hash \in {setLocationHash(t) : t \in NavTyped}
    /\ lastOp = Idle /\ clock = 0 /\ issued = {}
    /\ editingEndpoint = JNull /\ modalVisible = FALSE /\ view = << >> /\ selectedName = << >>
    /\ s3Client = JNull
    /\ hookEndpoints = << >> /\ selectedEndpoint = JNull /\ hookEditing = JNull /\ showForm = FALSE
    /\ savedConfigs = << >> /\ configsItem = NoItem
    /\ selectedBucket = << >> /\ currentPath = << >>
    /\ showObjects = FALSE /\ pending = 0 /\ navSteps = 0
    /\ NoHashHarness /\ NoGateway /\ NoExtra
    /\ localStorage = NoItem /\ loaded = NotLoaded
    /\ cin = << >> /\ cenc = NotRun /\ cdec = NotRun

NavFrame ==
    UNCHANGED <<app, clock, issued, editingEndpoint, modalVisible, view, s3Client,
                hookVars, cfgVars, hashVars, gwVars, extraVars, localStorage, loaded,
                codecVars>>

Mounted == lastOp.op # "none"

\* a user action: key is the endpoint selected when it was taken, arg what it was
\* handed, ok whether no hashchange event was waiting, found whether a path was
\* selected
UserOp(op, arg) ==
    /\ navSteps < MaxNavSteps
    /\ navSteps' = navSteps + 1
    /\ lastOp' = Op(op, selectedName, arg, pending = 0, currentPath # << >>)

\* window.location.hash = value, with `queued` events waiting before it
AssignHash(value, queued) ==
    \E fragment \in {setLocationHash(value)} :
        /\ hash' = fragment
        /\ pending' = IF fragment = hash THEN queued ELSE queued + 1

\* ---- App ----

\* useState(parseHash()) of the first render
NavMount ==
    /\ app = "nav" /\ ~Mounted
    /\ \E t \in {parseHash(hash)} :
       /\ selectedName' = t.endpointName
       /\ selectedBucket' = t.bucket
       /\ currentPath' = t.path
    /\ lastOp' = Op("mount", << >>, JNull, TRUE, FALSE)
    /\ UNCHANGED <<hash, pending, navSteps, showObjects>>
    /\ NavFrame

\* leaves currentPath as it was
handleHashChange_noPath ==
    /\ app = "nav" /\ Mounted /\ pending > 0
    /\ \E t \in {parseHash(hash)} :
       /\ selectedName' = t.endpointName
       /\ selectedBucket' = t.bucket
       /\ UNCHANGED currentPath
    /\ pending' = pending - 1
    /\ UNCHANGED <<hash, lastOp, navSteps, showObjects>>
    /\ NavFrame

\* a queued hashchange event is dispatched to handleHashChange
handleHashChange ==
    /\ app = "nav" /\ Mounted /\ pending > 0
    /\ \E t \in {parseHash(hash)} :
       /\ selectedName' = t.endpointName
       /\ selectedBucket' = t.bucket
       /\ currentPath' = t.path
    /\ pending' = pending - 1
    /\ UNCHANGED <<hash, lastOp, navSteps, showObjects>>
    /\ NavFrame

NavKeepsState == UNCHANGED <<selectedName, selectedBucket, currentPath, showObjects>>

\* EndpointManager is shown while no endpoint is selected
handleSelectEndpoint ==
    /\ app = "nav" /\ Mounted
    /\ selectedName = << >>
    /\ \E endpoint \in NavEndpointNames :
         /\ UserOp("handleSelectEndpoint", endpoint)
         /\ AssignHash(updateHash(endpoint, << >>, << >>), pending)
    /\ NavKeepsState
    /\ NavFrame

\* BucketManager is shown while an endpoint and no bucket is selected
handleSelectBucket ==
    /\ app = "nav" /\ Mounted
    /\ selectedName # << >> /\ selectedBucket = << >>
    /\ \E bucket \in NavBucketNames :
         /\ UserOp("handleSelectBucket", bucket)
         /\ AssignHash(updateHash(parseHash(hash).endpointName, bucket, << >>), pending)
    /\ NavKeepsState
    /\ NavFrame

\* writes the bucket back with the endpoint
handleBackToBuckets_keepBucket ==
    /\ app = "nav" /\ Mounted
    /\ selectedName # << >> /\ selectedBucket # << >>
    /\ UserOp("handleBackToBuckets", JNull)
    /\ AssignHash(updateHash(parseHash(hash).endpointName, parseHash(hash).bucket, << >>), pending)
    /\ NavKeepsState
    /\ NavFrame

\* the endpoint's link of NavigationBar, there while an endpoint and a bucket are selected
handleBackToBuckets ==
    /\ app = "nav" /\ Mounted
    /\ selectedName # << >> /\ selectedBucket # << >>
    /\ UserOp("handleBackToBuckets", JNull)
    /\ AssignHash(updateHash(parseHash(hash).endpointName, << >>, << >>), pending)
    /\ NavKeepsState
    /\ NavFrame

\* ObjectManager and FileDetail (an endpoint and a bucket are selected) hand over a
\* listed key or a parent; the bucket's link of NavigationBar (a bucket and a path
\* are selected) hands over ''
handlePathChange ==
    /\ app = "nav" /\ Mounted
    /\ selectedBucket # << >>
    /\ \E path \in Offered(currentPath) :
         /\ selectedName # << >> \/ (path = << >> /\ currentPath # << >>)
         /\ UserOp("handlePathChange", path)
         /\ LET t == parseHash(hash) IN
            AssignHash(updateHash(t.endpointName, t.bucket, path), pending)
    /\ NavKeepsState
    /\ NavFrame

\* the Home link of NavigationBar, there while an endpoint is selected
handleBackToEndpoints ==
    /\ app = "nav" /\ Mounted
    /\ selectedName # << >>
    /\ UserOp("handleBackToEndpoints", JNull)
    /\ AssignHash(updateHash(<< >>, << >>, << >>), pending)
    /\ NavKeepsState
    /\ NavFrame

\* ---- the first App ----

\* the hash-writing effect, run after a render that changed one of its dependencies
\* (and after the first render): what it assigns, if anything
HashEffect0(bucket, path, show) ==
    IF show /\ bucket # << >> THEN [write |-> TRUE, value |-> updateHash0(bucket, path)]
    ELSE IF ~show THEN [write |-> TRUE, value |-> updateHash0(<< >>, << >>)]
    ELSE [write |-> FALSE, value |-> << >>]

\* the state is set, the component renders and its effect runs
SetState0(bucket, path, show, first, queued) ==
    /\ selectedBucket' = bucket
    /\ currentPath' = path
    /\ showObjects' = show
    /\ UNCHANGED selectedName
    /\ \E effect \in {HashEffect0(bucket, path, show)} :
         IF (first \/ <<bucket, path, show>> # <<selectedBucket, currentPath, showObjects>>)
            /\ effect.write
         THEN AssignHash(effect.value, queued)
         ELSE hash' = hash /\ pending' = queued

\* getInitialState() and the first render
NavMount0 ==
    /\ app = "nav0" /\ ~Mounted
    /\ \E t \in {parseHash0(hash)} : SetState0(t.bucket, t.path, t.bucket # << >>, TRUE, pending)
    /\ lastOp' = Op("mount", << >>, JNull, TRUE, FALSE)
    /\ UNCHANGED navSteps
    /\ NavFrame

\* a queued hashchange event is dispatched to handleHashChange
handleHashChange0 ==
    /\ app = "nav0" /\ Mounted /\ pending > 0
    /\ \E t \in {parseHash0(hash)} :
         SetState0(t.bucket, t.path, t.bucket # << >>, FALSE, pending - 1)
    /\ UNCHANGED <<lastOp, navSteps>>
    /\ NavFrame

\* BucketManager is shown unless showObjects and a bucket is selected; the null it
\* hands over after deleting the selected bucket never comes, for it is shown only
\* while no bucket is selected
handleSelectBucket0 ==
    /\ app = "nav0" /\ Mounted
    /\ ~(showObjects /\ selectedBucket # << >>)
    /\ \E bucket \in NavBucketNames :
         /\ UserOp("handleSelectBucket", bucket)
         /\ SetState0(bucket, << >>, TRUE, FALSE, pending)
    /\ NavFrame

\* ObjectManager is shown while showObjects and a bucket is selected
handleBackToBuckets0 ==
    /\ app = "nav0" /\ Mounted
    /\ showObjects /\ selectedBucket # << >>
    /\ UserOp("handleBackToBuckets", JNull)
    /\ SetState0(<< >>, << >>, FALSE, FALSE, pending)
    /\ NavFrame

handlePathChange0 ==
    /\ app = "nav0" /\ Mounted
    /\ showObjects /\ selectedBucket # << >>
    /\ \E path \in Offered(currentPath) :
         /\ UserOp("handlePathChange", path)
         /\ SetState0(selectedBucket, path, showObjects, FALSE, pending)
    /\ NavFrame

\* ---- the browser ----

\* the user edits the fragment in the address bar or goes back or forward
ExternalEdit ==
    /\ app \in {"nav", "nav0"} /\ Mounted
    /\ \E typed \in NavTyped :
         /\ UserOp("externalEdit", typed)
         /\ AssignHash(typed, pending)
    /\ NavKeepsState
    /\ NavFrame

\* renderContent without the file detail: every path of a bucket is listed
renderContent_noFile(endpoint, bucket, path) ==
    IF endpoint = << >> THEN "EndpointManager"
    ELSE IF bucket = << >> THEN "BucketManager"
    ELSE "ObjectManager"

\* App.renderContent: the component the selection is rendered as ('' is falsy)
renderContent(endpoint, bucket, path) ==
    IF endpoint = << >> THEN "EndpointManager"
    ELSE IF bucket = << >> THEN "BucketManager"
    ELSE IF path # << >> /\ path[Len(path)] # 47 THEN "FileDetail"
    ELSE "ObjectManager"

\* what App shows in the current state
Rendered == renderContent(selectedName, selectedBucket, currentPath)

NavNext ==
    \/ NavMount \/ handleHashChange
    \/ handleSelectEndpoint \/ handleSelectBucket \/ handleBackToBuckets
    \/ handlePathChange \/ handleBackToEndpoints
    \/ NavMount0 \/ handleHashChange0
    \/ handleSelectBucket0 \/ handleBackToBuckets0 \/ handlePathChange0
    \/ ExternalEdit

\* every queued hashchange event is dispatched
NavFairness == WF_vars(handleHashChange) /\ WF_vars(handleHashChange0)

SpecNav == NavInit /\ [][NavNext]_vars /\ NavFairness

---------------------------------------------------------------------------
(* Calls of the storage gateway. app = "sidebar" is BucketList on            *)
(* useS3Browser (the hook's loading and error are shared by all its calls);  *)
(* app = "bucketManager" is the BucketManager that keeps its own list;       *)
(* app = "objectManager" is ObjectManager's listing, for which buckets and   *)
(* remote stand for the objects shown and the objects stored. A call stays   *)
(* in flight until the gateway settles it, either way.                       *)

\* most user actions (clicks, navigations) that are followed
MaxCalls == 2

NoCall == [op |-> "none", arg |-> << >>, by |-> "none", outer |-> "none"]

\* a call in flight: by is who issued it ("user", "effect", or "handler" for a call a
\* handler makes after its own), outer the hook function awaiting it
Call(op, arg, by, outer) == [op |-> op, arg |-> arg, by |-> by, outer |-> outer]

NoMessage == "none"

GatewayInit ==
    /\ app \in {"sidebar", "bucketManager", "objectManager"}
    /\ remote \in SUBSET NavBucketNames
    /\ buckets = {} /\ loading = FALSE /\ error = NoMessage
    /\ call = NoCall /\ unhandled = {} /\ gwSteps = 0
    /\ lastOp = Idle /\ clock = 0 /\ issued = {}
    /\ editingEndpoint = JNull /\ modalVisible = FALSE /\ view = << >> /\ selectedName = << >>
    /\ s3Client = JNull
    /\ hookEndpoints = << >> /\ selectedEndpoint = JNull /\ hookEditing = JNull /\ showForm = FALSE
    /\ savedConfigs = << >> /\ configsItem = NoItem
    /\ NoNav /\ NoHashHarness /\ NoExtra
    /\ localStorage = NoItem /\ loaded = NotLoaded
    /\ cin = << >> /\ cenc = NotRun /\ cdec = NotRun

GatewayFrame ==
    UNCHANGED <<app, clock, issued, mgrVars, hookVars, cfgVars, navVars, hashVars,
                extraVars, localStorage, loaded, codecVars>>

\* a step of a user: ok whether it went well (a click goes well), arg the list
\* shown before it
GatewayUser(op, name) ==
    /\ gwSteps < MaxCalls
    /\ gwSteps' = gwSteps + 1
    /\ lastOp' = Op(op, name, buckets, TRUE, FALSE)

\* a call is settled: ok whether it succeeded, arg the list shown before, found
\* whether the handler that awaited it was left with a rejection nobody catches
Settled(op, ok, escaped) ==
    /\ UNCHANGED gwSteps
    /\ lastOp' = Op(op, call.arg, buckets, ok, escaped)

\* ---- useS3Browser and BucketList ----

\* the component renders with list b, loading l and error e, no call in flight, and
\* BucketList's effect runs if buckets.length or loading changed (or on the first
\* render): with no bucket shown and nothing loading it calls onRefresh, which is
\* listBuckets
BucketList_effect(b, l, e, first) ==
    /\ buckets' = b
    /\ IF (first \/ <<Cardinality(b), l>> # <<Cardinality(buckets), loading>>) /\ b = {} /\ ~l
       THEN /\ loading' = TRUE
            /\ error' = NoMessage
            /\ call' = Call("listBuckets", << >>, "effect", "none")
       ELSE /\ loading' = l
            /\ error' = e
            /\ call' = NoCall

\* an endpoint is selected and Sidebar shows BucketList
Sidebar_mount ==
    /\ app = "sidebar" /\ lastOp = Idle
    /\ BucketList_effect(buckets, loading, error, TRUE)
    /\ lastOp' = Op("mount", << >>, buckets, TRUE, FALSE)
    /\ UNCHANGED <<remote, unhandled, gwSteps>>
    /\ GatewayFrame

\* the Refresh button, disabled while loading: listBuckets()
BucketList_onRefresh ==
    /\ app = "sidebar" /\ lastOp # Idle
    /\ ~loading /\ call = NoCall
    /\ GatewayUser("onRefresh", << >>)
    /\ loading' = TRUE /\ error' = NoMessage
    /\ call' = Call("listBuckets", << >>, "user", "none")
    /\ UNCHANGED <<remote, buckets, unhandled>>
    /\ GatewayFrame

\* the awaited s3Service.listBuckets() settles inside listBuckets; a createBucket or
\* deleteBucket awaiting listBuckets then runs its own finally
listBuckets_settled ==
    /\ app = "sidebar" /\ call.op = "listBuckets"
    /\ \E ok \in BOOLEAN :
         /\ Settled("listBuckets", ok, FALSE)
         /\ BucketList_effect(IF ok THEN remote ELSE buckets, FALSE,
                              IF ok THEN error ELSE "Failed to list buckets", FALSE)
    /\ UNCHANGED <<remote, unhandled>>
    /\ GatewayFrame

\* the create form is submitted: onCreate is createBucket
BucketList_handleCreate ==
    /\ app = "sidebar" /\ lastOp # Idle
    /\ call = NoCall
    /\ \E name \in NavBucketNames :
         /\ GatewayUser("handleCreate", name)
         /\ call' = Call("createBucket", name, "user", "none")
    /\ loading' = TRUE /\ error' = NoMessage
    /\ UNCHANGED <<remote, buckets, unhandled>>
    /\ GatewayFrame

\* the awaited s3Service.createBucket() settles: createBucket goes on to await
\* listBuckets(), or sets the error and throws, which handleCreate catches
createBucket_settled ==
    /\ app = "sidebar" /\ call.op = "createBucket"
    /\ \E ok \in BOOLEAN :
         /\ Settled("createBucket", ok, FALSE)
         /\ IF ok
            THEN /\ remote' = remote \cup {call.arg}
                 /\ loading' = TRUE /\ error' = NoMessage
                 /\ call' = Call("listBuckets", << >>, "handler", "createBucket")
                 /\ UNCHANGED buckets
            ELSE /\ UNCHANGED remote
                 /\ BucketList_effect(buckets, FALSE, "Failed to create bucket", FALSE)
    /\ UNCHANGED unhandled
    /\ GatewayFrame

\* the delete button of a row, confirmed: await onDelete(bucketName), with no catch
BucketList_handleDelete ==
    /\ app = "sidebar" /\ lastOp # Idle
    /\ call = NoCall
    /\ \E name \in buckets :
         /\ GatewayUser("handleDelete", name)
         /\ call' = Call("deleteBucket", name, "user", "none")
    /\ loading' = TRUE /\ error' = NoMessage
    /\ UNCHANGED <<remote, buckets, unhandled>>
    /\ GatewayFrame

\* the awaited s3Service.deleteBucket() settles: deleteBucket goes on to await
\* listBuckets(), or sets the error and throws; handleDelete awaits it outside any
\* try, so its own promise is rejected and nothing handles it
deleteBucket_settled ==
    /\ app = "sidebar" /\ call.op = "deleteBucket"
    /\ \E ok \in BOOLEAN :
         /\ Settled("deleteBucket", ok, ~ok)
         /\ IF ok
            THEN /\ remote' = remote \ {call.arg}
                 /\ loading' = TRUE /\ error' = NoMessage
                 /\ call' = Call("listBuckets", << >>, "handler", "deleteBucket")
                 /\ UNCHANGED <<buckets, unhandled>>
            ELSE /\ UNCHANGED remote
                 /\ unhandled' = unhandled \cup {"BucketList.handleDelete"}
                 /\ BucketList_effect(buckets, FALSE, "Failed to delete bucket", FALSE)
    /\ GatewayFrame

\* ---- BucketManager ----

\* fetchBuckets(): the client is there
fetchBuckets(by) ==
    /\ loading' = TRUE
    /\ call' = Call("listBuckets", << >>, by, "none")

\* the first render: useEffect(() => { fetchBuckets() }, [fetchBuckets])
BucketManager_mount ==
    /\ app = "bucketManager" /\ lastOp = Idle
    /\ fetchBuckets("effect")
    /\ lastOp' = Op("mount", << >>, buckets, TRUE, FALSE)
    /\ UNCHANGED <<remote, buckets, error, unhandled, gwSteps>>
    /\ GatewayFrame

\* the awaited listBuckets(client) settles inside fetchBuckets
fetchBuckets_settled ==
    /\ app = "bucketManager" /\ call.op = "listBuckets"
    /\ \E ok \in BOOLEAN :
         /\ Settled("listBuckets", ok, FALSE)
         /\ buckets' = IF ok THEN remote ELSE buckets
         /\ error' = IF ok THEN error ELSE "Failed to list buckets"
    /\ loading' = FALSE
    /\ call' = NoCall
    /\ UNCHANGED <<remote, unhandled>>
    /\ GatewayFrame

\* the create modal is confirmed with a valid name
BucketManager_handleCreate ==
    /\ app = "bucketManager" /\ lastOp # Idle
    /\ call = NoCall
    /\ \E name \in NavBucketNames :
         /\ GatewayUser("handleCreate", name)
         /\ call' = Call("createBucket", name, "user", "none")
    /\ UNCHANGED <<remote, buckets, loading, error, unhandled>>
    /\ GatewayFrame

\* the awaited createBucket(client, name) settles inside handleCreate's try
BucketManager_createBucket_settled ==
    /\ app = "bucketManager" /\ call.op = "createBucket"
    /\ \E ok \in BOOLEAN :
         /\ Settled("createBucket", ok, FALSE)
         /\ IF ok
            THEN /\ remote' = remote \cup {call.arg}
                 /\ fetchBuckets("handler")
                 /\ UNCHANGED error
            ELSE /\ UNCHANGED <<remote, loading>>
                 /\ error' = "Failed to create bucket"
                 /\ call' = NoCall
    /\ UNCHANGED <<buckets, unhandled>>
    /\ GatewayFrame

\* the delete button of a row, confirmed
BucketManager_handleDelete ==
    /\ app = "bucketManager" /\ lastOp # Idle
    /\ call = NoCall
    /\ \E name \in buckets :
         /\ GatewayUser("handleDelete", name)
         /\ call' = Call("deleteBucket", name, "user", "none")
    /\ UNCHANGED <<remote, buckets, loading, error, unhandled>>
    /\ GatewayFrame

\* the awaited deleteBucket(client, bucketName) settles inside handleDelete's try
BucketManager_deleteBucket_settled ==
    /\ app = "bucketManager" /\ call.op = "deleteBucket"
    /\ \E ok \in BOOLEAN :
         /\ Settled("deleteBucket", ok, FALSE)
         /\ IF ok
            THEN /\ remote' = remote \ {call.arg}
                 /\ fetchBuckets("handler")
                 /\ UNCHANGED error
            ELSE /\ UNCHANGED <<remote, loading>>
                 /\ error' = "Failed to delete bucket"
                 /\ call' = NoCall
    /\ UNCHANGED <<buckets, unhandled>>
    /\ GatewayFrame

\* ---- ObjectManager ----

\* fetchObjects(): the client and the bucket are there
fetchObjects(by) ==
    /\ loading' = TRUE
    /\ call' = Call("listObjects", << >>, by, "none")

\* the first render: useEffect(() => { fetchObjects(); ... }, [fetchObjects])
ObjectManager_mount ==
    /\ app = "objectManager" /\ lastOp = Idle
    /\ fetchObjects("effect")
    /\ lastOp' = Op("mount", << >>, buckets, TRUE, FALSE)
    /\ UNCHANGED <<remote, buckets, error, unhandled, gwSteps>>
    /\ GatewayFrame

\* the user opens another folder: currentPath changes, so fetchObjects does, and the
\* effect calls it
ObjectManager_navigate ==
    /\ app = "objectManager" /\ lastOp # Idle
    /\ call = NoCall
    /\ GatewayUser("navigate", << >>)
    /\ fetchObjects("user")
    /\ UNCHANGED <<remote, buckets, error, unhandled>>
    /\ GatewayFrame

\* the awaited listObjects(client, selectedBucket, currentPath) settles
fetchObjects_settled ==
    /\ app = "objectManager" /\ call.op = "listObjects"
    /\ \E ok \in BOOLEAN :
         /\ Settled("listObjects", ok, FALSE)
         /\ buckets' = IF ok THEN remote ELSE buckets
         /\ error' = IF ok THEN error ELSE "Failed to list objects"
    /\ loading' = FALSE
    /\ call' = NoCall
    /\ UNCHANGED <<remote, unhandled>>
    /\ GatewayFrame

GatewayNext ==
    \/ Sidebar_mount \/ BucketList_onRefresh \/ listBuckets_settled
    \/ BucketList_handleCreate \/ createBucket_settled
    \/ BucketList_handleDelete \/ deleteBucket_settled
    \/ BucketManager_mount \/ fetchBuckets_settled
    \/ BucketManager_handleCreate \/ BucketManager_createBucket_settled
    \/ BucketManager_handleDelete \/ BucketManager_deleteBucket_settled
    \/ ObjectManager_mount \/ ObjectManager_navigate \/ fetchObjects_settled

\* the gateway settles every call
GatewaySettles ==
    /\ WF_vars(listBuckets_settled) /\ WF_vars(createBucket_settled)
    /\ WF_vars(deleteBucket_settled)
    /\ WF_vars(fetchBuckets_settled) /\ WF_vars(BucketManager_createBucket_settled)
    /\ WF_vars(BucketManager_deleteBucket_settled)
    /\ WF_vars(fetchObjects_settled)

SpecGateway == GatewayInit /\ [][GatewayNext]_vars /\ GatewaySettles

---------------------------------------------------------------------------
(* Form submissions: the create-bucket forms of the three bucket views and   *)
(* the connect form of S3Config, handed every bounded input                  *)

\* longest bucket name typed into a create form
MaxNameLen == 3

\* "a", "A", "-" and " "
NameAlphabet == {97, 65, 45, 32}

RECURSIVE TypedUpTo(_)
TypedUpTo(n) ==
    IF n = 0 THEN {<< >>}
    ELSE LET shorter == TypedUpTo(n - 1) IN
         shorter \cup {Append(s, c) : s \in {u \in shorter : Len(u) = n - 1}, c \in NameAlphabet}

\* [a-z0-9]
IsLowerAlnum(c) == (c >= 97 /\ c <= 122) \/ (c >= 48 /\ c <= 57)

\* /^[a-z0-9][a-z0-9-]{1,61}[a-z0-9]$/.test(s)
MatchesBucketPattern(s) ==
    /\ Len(s) >= 3 /\ Len(s) <= 63
    /\ IsLowerAlnum(s[1]) /\ IsLowerAlnum(s[Len(s)])
    /\ \A i \in 2..(Len(s) - 1) : IsLowerAlnum(s[i]) \/ s[i] = 45

\* s.trim()
RECURSIVE trim(_)
trim(s) ==
    IF s = << >> THEN s
    ELSE IF IsAsciiWhitespace(Head(s)) THEN trim(Tail(s))
    ELSE IF IsAsciiWhitespace(s[Len(s)]) THEN trim(SubSeq(s, 1, Len(s) - 1))
    ELSE s

\* s.toLowerCase()
toLowerCase(s) == [i \in 1..Len(s) |-> IF s[i] >= 65 /\ s[i] <= 90 THEN s[i] + 32 ELSE s[i]]

\* form.validateFields() of the antd form resolves: the rules of bucketName are
\* required and the pattern
validateFields(value) == value # << >> /\ MatchesBucketPattern(value)

FormFields == {<< >>, <<120>>}

FormInputs ==
    {[kind |-> "create", name |-> s] : s \in TypedUpTo(MaxNameLen)}
    \cup {[kind |-> "connect", region |-> r, accessKeyId |-> a, secretAccessKey |-> k, bucket |-> b] :
            r \in FormFields, a \in FormFields, k \in FormFields, b \in FormFields}

FormInit ==
    /\ fnIn \in FormInputs
    /\ fnOut = NoOutput
    /\ NoAppCore /\ NoObj /\ NoTabs /\ localStorage = NoItem /\ loaded = NotLoaded /\ NoCodec

FormFrame == UNCHANGED <<fnIn, codecVars, loaded, localStorage, app, lastOp, clock, issued,
                         mgrVars, hookVars, cfgVars, navVars, hashVars, gwVars, objVars, tabVars>>

\* what a submission did: whether it made the call (CreateBucket, onConnect), and
\* with what
Submitted(by, called, arg) == [by |-> by, called |-> called, arg |-> arg]

\* BucketManager.handleCreate of the antd view: validateFields, then createBucket
Submit_handleCreate ==
    /\ fnIn.kind = "create" /\ fnOut = NoOutput
    /\ fnOut' = IF validateFields(fnIn.name)
                THEN Submitted("handleCreate", TRUE, fnIn.name)
                ELSE Submitted("handleCreate", FALSE, << >>)
    /\ FormFrame

\* BucketManager.handleCreateBucket: an empty trimmed name is refused, any other is
\* sent trimmed
Submit_handleCreateBucket ==
    /\ fnIn.kind = "create" /\ fnOut = NoOutput
    /\ fnOut' = IF trim(fnIn.name) = << >>
                THEN Submitted("handleCreateBucket", FALSE, << >>)
                ELSE Submitted("handleCreateBucket", TRUE, trim(fnIn.name))
    /\ FormFrame

\* BucketList.handleCreate: an empty trimmed name is refused, any other is sent
\* trimmed and in lower case
Submit_BucketList_handleCreate ==
    /\ fnIn.kind = "create" /\ fnOut = NoOutput
    /\ fnOut' = IF trim(fnIn.name) = << >>
                THEN Submitted("BucketList.handleCreate", FALSE, << >>)
                ELSE Submitted("BucketList.handleCreate", TRUE, toLowerCase(trim(fnIn.name)))
    /\ FormFrame

\* S3Config.handleSubmit: region, accessKeyId and secretAccessKey are required
Submit_handleSubmit ==
    /\ fnIn.kind = "connect" /\ fnOut = NoOutput
    /\ fnOut' = IF fnIn.region # << >> /\ fnIn.accessKeyId # << >> /\ fnIn.secretAccessKey # << >>
                THEN Submitted("handleSubmit", TRUE, fnIn.region)
                ELSE Submitted("handleSubmit", FALSE, << >>)
    /\ FormFrame

\* S3Config.handleSubmit of the single-bucket form: the bucket is required too
Submit_handleSubmit_bucket ==
    /\ fnIn.kind = "connect" /\ fnOut = NoOutput
    /\ fnOut' = IF fnIn.region # << >> /\ fnIn.accessKeyId # << >> /\ fnIn.secretAccessKey # << >>
                   /\ fnIn.bucket # << >>
                THEN Submitted("handleSubmit(bucket)", TRUE, fnIn.bucket)
                ELSE Submitted("handleSubmit(bucket)", FALSE, << >>)
    /\ FormFrame

FormNext ==
    \/ Submit_handleCreate \/ Submit_handleCreateBucket \/ Submit_BucketList_handleCreate
    \/ Submit_handleSubmit \/ Submit_handleSubmit_bucket

SpecForm == FormInit /\ [][FormNext]_vars

---------------------------------------------------------------------------
(* Object listings: what the three listObjects make of a ListObjectsV2       *)
(* response for a prefix and the delimiter '/'                               *)

\* most keys, and most common prefixes, in a response
MaxListed == 2

\* the prefixes listed: "" and "x/"
ListPrefixes == {<< >>, <<120, 47>>}

\* the keys a response for `prefix` can hold in Contents: objects right under the
\* prefix ("a", "b") and, under a folder, the marker object whose key is the prefix
ContentKeys(prefix) ==
    {prefix \o <<97>>, prefix \o <<98>>} \cup (IF prefix = << >> THEN {} ELSE {prefix})

\* the common prefixes of such a response: "d/" and "e/" under the prefix
CommonKeys(prefix) == {prefix \o <<100, 47>>, prefix \o <<101, 47>>}

RECURSIVE DistinctSeqs(_, _)
DistinctSeqs(S, n) ==
    IF n = 0 THEN {<< >>}
    ELSE LET shorter == DistinctSeqs(S, n - 1) IN
         shorter \cup {Append(q, x) : q \in {u \in shorter : Len(u) = n - 1}, x \in S}

NoRepeat(q) == \A i, j \in 1..Len(q) : q[i] = q[j] => i = j

\* a field of the response: the SDK leaves it undefined when there is nothing
Present(items) == [defined |-> TRUE, items |-> items]

Absent == [defined |-> FALSE, items |-> << >>]

\* response.Contents and response.CommonPrefixes
ListResponses(prefix) ==
    {[Contents |-> c, CommonPrefixes |-> p] :
        c \in {Present(q) : q \in {u \in DistinctSeqs(ContentKeys(prefix), MaxListed) : NoRepeat(u)}}
              \cup {Absent},
        p \in {Present(q) : q \in {u \in DistinctSeqs(CommonKeys(prefix), MaxListed) : NoRepeat(u)}}
              \cup {Absent}}

\* response.X || []
OrEmpty(x) == IF x.defined THEN x.items ELSE << >>

FolderEntry(key) == [key |-> key, isFolder |-> TRUE]

ObjectEntry(key) == [key |-> key, isFolder |-> FALSE]

\* keys.filter(key => key !== prefix)
WithoutKey(keys, prefix) == SelectSeq(keys, LAMBDA k : k # prefix)

MapSeq(q, F(_)) == [i \in 1..Len(q) |-> F(q[i])]

\* listObjects of services/s3Client.ts
s3Client_listObjects(prefix, response) ==
    LET files == MapSeq(WithoutKey(OrEmpty(response.Contents), prefix), ObjectEntry)
        prefixes == OrEmpty(response.CommonPrefixes)
    IN [objects |-> MapSeq(prefixes, FolderEntry) \o files, prefixes |-> prefixes]

\* S3Service.listObjects of services/s3Service.ts
S3Service_listObjects(prefix, response) ==
    [objects |-> MapSeq(OrEmpty(response.Contents), ObjectEntry),
     prefixes |-> OrEmpty(response.CommonPrefixes)]

\* what S3Browser.loadObjects hands to setObjects
loadObjects(prefix, response) ==
    LET folders == MapSeq(OrEmpty(response.CommonPrefixes), FolderEntry)
        files == MapSeq(WithoutKey(OrEmpty(response.Contents), prefix), ObjectEntry)
    IN [objects |-> folders \o files, prefixes |-> << >>]

ListInit ==
    /\ \E prefix \in ListPrefixes :
         fnIn \in {[kind |-> "list", prefix |-> prefix, response |-> r] : r \in ListResponses(prefix)}
    /\ fnOut = NoOutput
    /\ NoAppCore /\ NoObj /\ NoTabs /\ localStorage = NoItem /\ loaded = NotLoaded /\ NoCodec

Listed(by, result) == [by |-> by, objects |-> result.objects, prefixes |-> result.prefixes]

List_s3Client ==
    /\ fnIn.kind = "list" /\ fnOut = NoOutput
    /\ fnOut' = Listed("s3Client.listObjects", s3Client_listObjects(fnIn.prefix, fnIn.response))
    /\ FormFrame

List_S3Service ==
    /\ fnIn.kind = "list" /\ fnOut = NoOutput
    /\ fnOut' = Listed("S3Service.listObjects", S3Service_listObjects(fnIn.prefix, fnIn.response))
    /\ FormFrame

List_loadObjects ==
    /\ fnIn.kind = "list" /\ fnOut = NoOutput
    /\ fnOut' = Listed("S3Browser.loadObjects", loadObjects(fnIn.prefix, fnIn.response))
    /\ FormFrame

ListNext == List_s3Client \/ List_S3Service \/ List_loadObjects

SpecList == ListInit /\ [][ListNext]_vars

---------------------------------------------------------------------------
(* Object views and their listing requests. app = "objects" is ObjectManager, *)
(* whose listing follows its props (bucket and path); app = "browser" is      *)
(* useS3Browser, whose listObjects sets the path when its listing arrives.    *)
(* Requests settle in any order; nothing cancels one.                         *)

\* most user actions on an object view that are followed
MaxObjSteps == 3

\* most requests in flight at once
MaxInFlight == 2

\* the targets navigated to: ("b", ""), ("b", "x/") and ("c", "")
Targets ==
    {[bucket |-> <<98>>, prefix |-> << >>], [bucket |-> <<98>>, prefix |-> <<120, 47>>],
     [bucket |-> <<99>>, prefix |-> << >>]}

Target(bucket, prefix) == [bucket |-> bucket, prefix |-> prefix]

\* the current navigation target
Current == Target(selectedBucket, currentPath)

\* useState<ObjectInfo[]>([]): nothing listed yet; a listing is told by the target
\* it was fetched for
NoListing == [of |-> "none", bucket |-> << >>, prefix |-> << >>]

ListingOf(target) == [of |-> "listing", bucket |-> target.bucket, prefix |-> target.prefix]

\* a request in flight: op is "listObjects", "selectBucket" (the listing selectBucket
\* starts), "listBuckets", "uploadObject" or "deleteObjects"; raised whether its
\* caller set the loading flag
Request(op, target) == [op |-> op, bucket |-> target.bucket, prefix |-> target.prefix]

Without(q, i) == SubSeq(q, 1, i - 1) \o SubSeq(q, i + 1, Len(q))

ObjectsInit ==
    /\ \/ /\ app = "objects"
          /\ \E t \in Targets : selectedBucket = t.bucket /\ currentPath = t.prefix
       \/ app = "browser" /\ selectedBucket = << >> /\ currentPath = << >>
    /\ objects = NoListing /\ inFlight = << >> /\ objSteps = 0
    /\ loading = FALSE /\ error = NoMessage
    /\ lastOp = Idle /\ clock = 0 /\ issued = {}
    /\ editingEndpoint = JNull /\ modalVisible = FALSE /\ view = << >> /\ selectedName = << >>
    /\ s3Client = JNull
    /\ hookEndpoints = << >> /\ selectedEndpoint = JNull /\ hookEditing = JNull /\ showForm = FALSE
    /\ savedConfigs = << >> /\ configsItem = NoItem
    /\ hash = << >> /\ showObjects = FALSE /\ pending = 0 /\ navSteps = 0
    /\ NoHashHarness /\ NoFn /\ NoTabs
    /\ remote = {} /\ buckets = {} /\ call = NoCall /\ unhandled = {} /\ gwSteps = 0
    /\ localStorage = NoItem /\ loaded = NotLoaded /\ NoCodec

ObjectsFrame ==
    UNCHANGED <<app, clock, issued, mgrVars, hookVars, cfgVars, hash, showObjects, pending,
                navSteps, hashVars, fnVars, tabVars, remote, buckets, call, unhandled, gwSteps,
                localStorage, loaded, codecVars>>

\* a user action: key and arg are the bucket and the path it was taken at
ObjectsUser(op) ==
    /\ objSteps < MaxObjSteps /\ Len(inFlight) < MaxInFlight
    /\ objSteps' = objSteps + 1
    /\ lastOp' = Op(op, selectedBucket, currentPath, TRUE, FALSE)

\* a request settles: key and arg are its bucket and prefix
ObjectsSettled(op, request, ok) ==
    /\ UNCHANGED objSteps
    /\ lastOp' = Op(op, request.bucket, request.prefix, ok, FALSE)

\* ---- ObjectManager ----

\* fetchObjects() as rendered for `target`: the client and the bucket are there
ObjectManager_fetchObjects(target, queue) ==
    /\ loading' = TRUE
    /\ inFlight' = Append(queue, Request("listObjects", target))

\* the first render: the effect calls fetchObjects
Objects_mount ==
    /\ app = "objects" /\ lastOp = Idle
    /\ ObjectManager_fetchObjects(Current, inFlight)
    /\ lastOp' = Op("mount", selectedBucket, currentPath, TRUE, FALSE)
    /\ UNCHANGED <<selectedBucket, currentPath, objects, error, objSteps>>
    /\ ObjectsFrame

\* the bucket or the path of the props changes (a folder is opened, the location is
\* edited): fetchObjects changes with them and the effect calls it
Objects_navigate ==
    /\ app = "objects" /\ lastOp # Idle
    /\ \E t \in Targets \ {Current} :
         /\ ObjectsUser("navigate")
         /\ selectedBucket' = t.bucket /\ currentPath' = t.prefix
         /\ ObjectManager_fetchObjects(t, inFlight)
    /\ UNCHANGED <<objects, error>>
    /\ ObjectsFrame

\* the reload button: onClick={fetchObjects}, whatever is loading
Objects_refresh ==
    /\ app = "objects" /\ lastOp # Idle
    /\ ObjectsUser("refresh")
    /\ ObjectManager_fetchObjects(Current, inFlight)
    /\ UNCHANGED <<selectedBucket, currentPath, objects, error>>
    /\ ObjectsFrame

\* handleUpload: await uploadObject(client, selectedBucket, currentPath + file.name, ...)
Objects_handleUpload ==
    /\ app = "objects" /\ lastOp # Idle
    /\ ObjectsUser("handleUpload")
    /\ inFlight' = Append(inFlight, Request("uploadObject", Current))
    /\ UNCHANGED <<selectedBucket, currentPath, objects, loading, error>>
    /\ ObjectsFrame

\* handleBatchDelete: await deleteObjects(client, selectedBucket, selectedRowKeys)
Objects_handleBatchDelete ==
    /\ app = "objects" /\ lastOp # Idle
    /\ objects # NoListing
    /\ ObjectsUser("handleBatchDelete")
    /\ inFlight' = Append(inFlight, Request("deleteObjects", Current))
    /\ UNCHANGED <<selectedBucket, currentPath, objects, loading, error>>
    /\ ObjectsFrame

\* an upload or a deletion settles: on success the handler calls the fetchObjects of
\* the render it was started in, on failure it shows a message
Objects_change_settled ==
    /\ app = "objects"
    /\ \E i \in 1..Len(inFlight), ok \in BOOLEAN :
         /\ inFlight[i].op \in {"uploadObject", "deleteObjects"}
         /\ ObjectsSettled(inFlight[i].op, inFlight[i], ok)
         /\ IF ok
            THEN /\ ObjectManager_fetchObjects(Target(inFlight[i].bucket, inFlight[i].prefix),
                                               Without(inFlight, i))
                 /\ UNCHANGED error
            ELSE /\ inFlight' = Without(inFlight, i)
                 /\ error' = "Failed to " \o (IF inFlight[i].op = "uploadObject" THEN "upload" ELSE "delete")
                 /\ UNCHANGED loading
    /\ UNCHANGED <<selectedBucket, currentPath, objects>>
    /\ ObjectsFrame

\* a listing settles inside fetchObjects: setObjects(result.objects) or a message,
\* then setLoading(false)
Objects_list_settled ==
    /\ app = "objects"
    /\ \E i \in 1..Len(inFlight), ok \in BOOLEAN :
         /\ inFlight[i].op = "listObjects"
         /\ ObjectsSettled("listObjects", inFlight[i], ok)
         /\ objects' = IF ok THEN ListingOf(inFlight[i]) ELSE objects
         /\ error' = IF ok THEN error ELSE "Failed to list objects"
         /\ inFlight' = Without(inFlight, i)
    /\ loading' = FALSE
    /\ UNCHANGED <<selectedBucket, currentPath>>
    /\ ObjectsFrame

\* ---- useS3Browser ----

\* selectBucket(bucket): the state is reset and the listing of the bucket started
selectBucket ==
    /\ app = "browser"
    /\ \E t \in Targets :
         /\ ObjectsUser("selectBucket")
         /\ selectedBucket' = t.bucket
         /\ inFlight' = Append(inFlight, Request("selectBucket", Target(t.bucket, << >>)))
    /\ objects' = NoListing
    /\ currentPath' = << >>
    /\ loading' = TRUE /\ error' = NoMessage
    /\ ObjectsFrame

\* navigateTo(path): listObjects(path) for the selected bucket
navigateTo ==
    /\ app = "browser"
    /\ \E t \in Targets :
         /\ t.bucket = selectedBucket
         /\ ObjectsUser("navigateTo")
         /\ inFlight' = Append(inFlight, Request("listObjects", t))
    /\ loading' = TRUE /\ error' = NoMessage
    /\ UNCHANGED <<selectedBucket, currentPath, objects>>
    /\ ObjectsFrame

\* the Refresh button of the bucket list: listBuckets()
Browser_listBuckets ==
    /\ app = "browser"
    /\ ObjectsUser("listBuckets")
    /\ inFlight' = Append(inFlight, Request("listBuckets", Target(<< >>, << >>)))
    /\ loading' = TRUE /\ error' = NoMessage
    /\ UNCHANGED <<selectedBucket, currentPath, objects>>
    /\ ObjectsFrame

\* a call of the hook settles: listObjects sets the objects and the path, the
\* listing of selectBucket the objects, and each sets loading to false
Browser_settled ==
    /\ app = "browser"
    /\ \E i \in 1..Len(inFlight), ok \in BOOLEAN :
         /\ ObjectsSettled(inFlight[i].op, inFlight[i], ok)
         /\ objects' = IF ok /\ inFlight[i].op \in {"listObjects", "selectBucket"}
                       THEN ListingOf(inFlight[i]) ELSE objects
         /\ currentPath' = IF ok /\ inFlight[i].op = "listObjects"
                           THEN inFlight[i].prefix ELSE currentPath
         /\ error' = IF ok THEN error ELSE "Failed to list"
         /\ inFlight' = Without(inFlight, i)
    /\ loading' = FALSE
    /\ UNCHANGED selectedBucket
    /\ ObjectsFrame

ObjectsNext ==
    \/ Objects_mount \/ Objects_navigate \/ Objects_refresh
    \/ Objects_handleUpload \/ Objects_handleBatchDelete
    \/ Objects_change_settled \/ Objects_list_settled
    \/ selectBucket \/ navigateTo \/ Browser_listBuckets \/ Browser_settled

SpecObjects == ObjectsInit /\ [][ObjectsNext]_vars

---------------------------------------------------------------------------
(* Two tabs on one backing record. app = "tabs": useS3Browser in each tab,    *)
(* which loads the record when it mounts and saves its own list afterwards.   *)
(* app = "tabsStorage": the functions of services/storage.ts, whose load and   *)
(* save are two accesses to the record with nothing holding it in between.     *)

Tabs == {1, 2}

\* the tab is not open
ClosedTab == [pc |-> "closed", endpoints |-> << >>, op |-> "none", arg |-> JNull]

\* the tab with its list; pc "loaded" while a function of storage.ts is between its
\* load and its save, op and arg being the function and its argument
OpenTab(endpoints) == [pc |-> "open", endpoints |-> endpoints, op |-> "none", arg |-> JNull]

LoadedTab(endpoints, op, arg) == [pc |-> "loaded", endpoints |-> endpoints, op |-> op, arg |-> arg]

\* the profile tab t makes at time now: the random part of its id is its own. The
\* clock advances with every operation of a tab on the record.
TabProfile(t, now) ==
    [id |-> IF app = "tabs" THEN generateEndpointId(now, t) ELSE Undefined,
     name |-> <<96 + t, 48 + now>>, endpoint |-> <<117>>,
     accessKeyId |-> <<97>>, secretAccessKey |-> <<98>>]

\* what a profile is known by: its id in the hook, its name in storage.ts
TabKey(p) == IF app = "tabs" THEN p.id ELSE p.name

TabKeys(endpoints) == {TabKey(endpoints[i]) : i \in 1..Len(endpoints)}

\* the list the backing record holds, as this variant reads it
TabLoad(item) ==
    IF app = "tabs" THEN EndpointsOf(s3Service_loadEndpoints(item)) ELSE loadEndpoints(item)

\* the record after this variant saved the list
TabSave(item, endpoints) ==
    IF app = "tabs" THEN s3Service_saveEndpoints(endpoints) ELSE saveEndpoints(item, endpoints).store

TabsInit ==
    /\ app \in {"tabs", "tabsStorage"}
    /\ tabs = [t \in Tabs |-> ClosedTab]
    /\ missed = [t \in Tabs |-> {}]
    /\ localStorage = NoItem
    /\ lastOp = Idle /\ clock = 0 /\ issued = {}
    /\ editingEndpoint = JNull /\ modalVisible = FALSE /\ view = << >> /\ selectedName = << >>
    /\ s3Client = JNull
    /\ hookEndpoints = << >> /\ selectedEndpoint = JNull /\ hookEditing = JNull /\ showForm = FALSE
    /\ savedConfigs = << >> /\ configsItem = NoItem
    /\ NoNav /\ NoHashHarness /\ NoGateway /\ NoFn /\ NoObj
    /\ loaded = NotLoaded /\ NoCodec

TabsFrame ==
    UNCHANGED <<app, issued, mgrVars, hookVars, cfgVars, navVars, hashVars, gwVars, fnVars,
                objVars, loaded, codecVars>>

\* tab t wrote `written`: every other tab that holds a list has missed what the
\* record gained by it
MissedAfter(t, written) ==
    [u \in Tabs |->
        IF u # t /\ tabs[u].pc # "closed"
        THEN missed[u] \cup (TabKeys(written) \ TabKeys(tabs[u].endpoints))
        ELSE missed[u]]

\* a save by tab t of the list `written`: key is the tab, arg the list
TabSaved(op, t, written) ==
    /\ localStorage' = TabSave(localStorage, written)
    /\ missed' = MissedAfter(t, written)
    /\ lastOp' = Op(op, t, written, TRUE, FALSE)

\* the tab is opened or loaded again: the mount effect reads the record
Tab_mount(t) ==
    /\ app = "tabs"
    /\ tabs' = [tabs EXCEPT ![t] = OpenTab(TabLoad(localStorage))]
    /\ missed' = [missed EXCEPT ![t] = {}]
    /\ lastOp' = Op("mount", t, TabLoad(localStorage), TRUE, FALSE)
    /\ UNCHANGED <<localStorage, clock>>
    /\ TabsFrame

\* an addEndpoint that reads the record again before it appends
Tab_addEndpoint_reload(t) ==
    /\ app = "tabs" /\ tabs[t].pc = "open"
    /\ clock < MaxClock /\ Len(TabLoad(localStorage)) < MaxEndpoints
    /\ clock' = clock + 1
    /\ \E updated \in {Append(TabLoad(localStorage), TabProfile(t, clock + 1))} :
         /\ tabs' = [tabs EXCEPT ![t] = OpenTab(updated)]
         /\ TabSaved("addEndpoint", t, updated)
    /\ TabsFrame

\* useS3Browser.addEndpoint in tab t: the tab's list with the new profile
Tab_addEndpoint(t) ==
    /\ app = "tabs" /\ tabs[t].pc = "open"
    /\ clock < MaxClock /\ Len(tabs[t].endpoints) < MaxEndpoints
    /\ clock' = clock + 1
    /\ \E updated \in {Append(tabs[t].endpoints, TabProfile(t, clock + 1))} :
         /\ tabs' = [tabs EXCEPT ![t] = OpenTab(updated)]
         /\ TabSaved("addEndpoint", t, updated)
    /\ TabsFrame

\* useS3Browser.updateEndpoint in tab t: the profile of that id gets another endpoint
Tab_updateEndpoint(t) ==
    /\ app = "tabs" /\ tabs[t].pc = "open"
    /\ \E i \in 1..Len(tabs[t].endpoints) :
         /\ tabs[t].endpoints[i].endpoint = <<117>>
         /\ \E updated \in {[tabs[t].endpoints EXCEPT ![i].endpoint = <<118>>]} :
              /\ tabs' = [tabs EXCEPT ![t] = OpenTab(updated)]
              /\ TabSaved("updateEndpoint", t, updated)
    /\ clock < MaxClock /\ clock' = clock + 1
    /\ TabsFrame

\* useS3Browser.deleteEndpoint in tab t
Tab_deleteEndpoint(t) ==
    /\ app = "tabs" /\ tabs[t].pc = "open"
    /\ \E i \in 1..Len(tabs[t].endpoints) :
         \E updated \in {SelectSeq(tabs[t].endpoints,
                                   LAMBDA e : e.id # tabs[t].endpoints[i].id)} :
              /\ tabs' = [tabs EXCEPT ![t] = OpenTab(updated)]
              /\ TabSaved("deleteEndpoint", t, updated)
    /\ clock < MaxClock /\ clock' = clock + 1
    /\ TabsFrame

\* addEndpoint, updateEndpoint or deleteEndpoint of storage.ts is called in tab t and
\* has done its loadEndpoints()
Storage_load(t) ==
    /\ app = "tabsStorage" /\ tabs[t].pc # "loaded"
    /\ clock < MaxClock /\ clock' = clock + 1
    /\ \E endpoints \in {TabLoad(localStorage)} :
         \/ /\ Len(endpoints) < MaxEndpoints
            /\ tabs' = [tabs EXCEPT ![t] =
                            LoadedTab(endpoints, "addEndpoint", TabProfile(t, clock + 1))]
         \/ /\ \E i \in 1..Len(endpoints) :
                 \/ tabs' = [tabs EXCEPT ![t] =
                                LoadedTab(endpoints, "deleteEndpoint", endpoints[i])]
                 \/ /\ endpoints[i].endpoint = <<117>>
                    /\ tabs' = [tabs EXCEPT ![t] =
                                   LoadedTab(endpoints, "updateEndpoint",
                                             [endpoints[i] EXCEPT !.endpoint = <<118>>])]
    /\ missed' = [missed EXCEPT ![t] = {}]
    /\ lastOp' = Op("loadEndpoints", t, TabLoad(localStorage), TRUE, FALSE)
    /\ UNCHANGED localStorage
    /\ TabsFrame

\* the list the function of storage.ts makes of the one it loaded
Modified(tab) ==
    CASE tab.op = "addEndpoint" -> Append(tab.endpoints, tab.arg)
      [] tab.op = "deleteEndpoint" ->
            SelectSeq(tab.endpoints, LAMBDA ep : ep.name # tab.arg.name)
      [] OTHER ->
            LET index == FindIndexByName(tab.endpoints, tab.arg.name)
            IN IF index > 0 THEN [tab.endpoints EXCEPT ![index] = tab.arg] ELSE tab.endpoints

\* the function does its saveEndpoints(endpoints) and returns
Storage_save(t) ==
    /\ app = "tabsStorage" /\ tabs[t].pc = "loaded"
    /\ \E written \in {Modified(tabs[t])} :
         /\ tabs' = [tabs EXCEPT ![t] = OpenTab(written)]
         /\ TabSaved(tabs[t].op, t, written)
    /\ UNCHANGED clock
    /\ TabsFrame

TabsNext ==
    \E t \in Tabs :
        \/ Tab_mount(t) \/ Tab_addEndpoint(t) \/ Tab_updateEndpoint(t) \/ Tab_deleteEndpoint(t)
        \/ Storage_load(t) \/ Storage_save(t)

SpecTabs == TabsInit /\ [][TabsNext]_vars

---------------------------------------------------------------------------
(* Claims about the codec, checked under SpecCodec *)

\* s has no unpaired surrogate
RECURSIVE WellFormedFrom(_, _)
WellFormedFrom(s, k) ==
    IF k > Len(s) THEN TRUE
    ELSE IF IsLowSurrogate(s[k]) THEN FALSE
    ELSE IF IsHighSurrogate(s[k])
         THEN k + 1 <= Len(s) /\ IsLowSurrogate(s[k + 1]) /\ WellFormedFrom(s, k + 2)
    ELSE WellFormedFrom(s, k + 1)

WellFormed(s) == WellFormedFrom(s, 1)

\* C1: for every string s, encode(s) succeeds and decode(encode(s)) equals s.
C1_RoundTrip ==
    /\ cenc # NotRun => ~cenc.threw
    /\ (cenc # NotRun /\ cdec # NotRun) => cdec = Return(cin)

\* the part of C1 the code keeps: a string without unpaired surrogates round-trips
C1_WellFormedRoundTrip ==
    WellFormed(cin) =>
        /\ cenc # NotRun => ~cenc.threw
        /\ (cenc # NotRun /\ cdec # NotRun) => cdec = Return(cin)

\* atob and decodeURIComponent both accept the stored form
Invertible(s) == ~atob(s).threw /\ ~decodeURIComponent(atob(s).value).threw

\* C9: decode never raises, and an input that cannot be inverted (atob or
\* decodeURIComponent rejects it, as for "not-valid-encoded-data") is returned unchanged.
C9_DecodeFailsSoft ==
    (cenc = NotRun /\ cdec # NotRun) =>
        /\ ~cdec.threw
        /\ ~Invertible(cin) => cdec.value = cin
        /\ (\E i \in 1..Len(cin) : SextetValue(cin[i]) = -1 /\ cin[i] # 61 /\ ~IsAsciiWhitespace(cin[i]))
              => cdec.value = cin

\* decode ran on "not-valid-encoded-data" and gave it back
C9_Witness ==
    /\ cin = <<110, 111, 116, 45, 118, 97, 108, 105, 100, 45, 101, 110, 99, 111, 100, 101, 100, 45, 100, 97, 116, 97>>
    /\ cenc = NotRun
    /\ cdec = Return(cin)

\* decode ran on base64 of a malformed escape ("JQ==" is "%") and gave it back
C9_WitnessEscape ==
    /\ cin = <<74, 81, 61, 61>>
    /\ cenc = NotRun
    /\ cdec = Return(cin)

---------------------------------------------------------------------------
(* Claims about loadEndpoints, checked under SpecLoad *)

IsString(v) == v # Undefined

\* the value is an array of objects that carry a name and both secrets
IsProfileRecordArray(item) ==
    /\ item.kind = "json"
    /\ item.value.t = "array"
    /\ \A i \in 1..Len(item.value.items) :
        /\ item.value.items[i].t = "object"
        /\ IsString(item.value.items[i].o.name)
        /\ IsString(item.value.items[i].o.accessKeyId)
        /\ IsString(item.value.items[i].o.secretAccessKey)

\* the stored profiles with both secrets decoded
DecodedProfiles(item) ==
    [i \in 1..Len(item.value.items) |->
        WithSecrets(item.value.items[i].o,
                    decode(item.value.items[i].o.accessKeyId).value,
                    decode(item.value.items[i].o.secretAccessKey).value)]

\* C2: loadEndpoints never throws; on a record that is absent, unparsable or not an
\* array of profile records it returns the empty sequence, and otherwise the stored
\* profiles with both secrets decoded.
C2_LoadFailsSoft ==
    loaded # NotLoaded =>
        /\ ~loaded.threw
        /\ loaded.value =
            IF IsProfileRecordArray(localStorage)
            THEN ArrayOf(DecodedProfiles(localStorage))
            ELSE JArray(<< >>)

\* what services/storage.ts keeps of C2: absent, unparsable and non-array records
\* load as the empty sequence, arrays of profile records load decoded
C2_StorageLoadsRecords ==
    (loaded.by = "storage" /\ (IsProfileRecordArray(localStorage) \/ localStorage.kind # "json"
                               \/ localStorage.value.t # "array")) =>
        loaded.value =
            IF IsProfileRecordArray(localStorage)
            THEN ArrayOf(DecodedProfiles(localStorage))
            ELSE JArray(<< >>)

---------------------------------------------------------------------------
(* Claims about the registry, checked under Spec *)

SameFields(q, p) ==
    /\ q.name = p.name
    /\ q.endpoint = p.endpoint
    /\ q.accessKeyId = p.accessKeyId
    /\ q.secretAccessKey = p.secretAccessKey

\* what loadEndpoints() of the running application returns
RegistryOf(item, configs) ==
    CASE app = "hook" -> EndpointsOf(s3Service_loadEndpoints(item))
      [] app = "config" -> ConfigsOf(configs)
      [] OTHER -> loadEndpoints(item)

Registry == RegistryOf(localStorage, configsItem)

\* after is before, followed by a profile with p's fields
Appended(before, after, p) ==
    /\ Len(after) = Len(before) + 1
    /\ SubSeq(after, 1, Len(before)) = before
    /\ SameFields(after[Len(after)], p)

\* the objects of the persisted record
PersistedItems ==
    IF localStorage.kind = "json" THEN EndpointsOf(localStorage.value) ELSE << >>

\* the key a profile is stored under: its id, or its name where profiles carry no id
KeyOf(ep) == IF app = "manager" THEN ep.name ELSE ep.id

NoEntryUnder(registry, key) == \A i \in 1..Len(registry) : KeyOf(registry[i]) # key

\* every entry under the key holds p, every other entry is as before
Replaced(before, after, key, p) ==
    /\ Len(after) = Len(before)
    /\ \A i \in 1..Len(before) :
        after[i] = IF KeyOf(before[i]) = key THEN p ELSE before[i]

\* one entry under the key holds p, every other entry is as before
ReplacedOne(before, after, key, p) ==
    /\ Len(after) = Len(before)
    /\ \E k \in 1..Len(before) :
        /\ KeyOf(before[k]) = key
        /\ after[k] = p
        /\ \A i \in 1..Len(before) : i # k => after[i] = before[i]

AddOps == {"submitAdd", "addEndpoint"}
EditOps == {"submitEdit", "updateEndpoint"}
RemoveOps == {"handleDelete", "deleteEndpoint", "deleteConfiguration"}

\* C3: after an add of p the registry is the registry before it, unchanged and in
\* the same order, followed by a profile with p's fields.
C3_AddAppends ==
    [][lastOp'.op \in AddOps =>
        Appended(Registry, RegistryOf(localStorage', configsItem'), lastOp'.arg)]_vars

\* what the code keeps of C3: an add the registry accepts appends p
C3_AcceptedAddAppends ==
    [][(lastOp'.op \in AddOps /\ lastOp'.ok) =>
        Appended(Registry, RegistryOf(localStorage', configsItem'), lastOp'.arg)]_vars

\* C4: after the remove of a profile that is in the registry, the registry holds no
\* entry under that profile's key (its id; its name where profiles carry no id).
C4_RemoveRemoves ==
    [][(lastOp'.op \in RemoveOps /\ lastOp'.found) =>
        NoEntryUnder(RegistryOf(localStorage', configsItem'), lastOp'.key)]_vars

\* a profile was removed from a registry of two, and the other one is left
C4_Witness ==
    /\ lastOp.op \in RemoveOps
    /\ lastOp.found
    /\ Len(Registry) = 1
    /\ KeyOf(Registry[1]) # lastOp.key

\* C5: after an accepted edit submission of profile e, the entry under e's key holds
\* exactly the submitted values (also a changed name), and every other entry is unchanged.
C5_EditReplaces ==
    [][(lastOp'.op \in EditOps /\ lastOp'.ok) =>
        Replaced(Registry, RegistryOf(localStorage', configsItem'), lastOp'.key, lastOp'.arg)]_vars

\* what the code keeps of C5: an edit that keeps the key replaces the first entry
\* under it and no other
C5_SameKeyEditReplaces ==
    [][(lastOp'.op \in EditOps /\ lastOp'.ok /\ KeyOf(lastOp'.arg) = lastOp'.key /\ lastOp'.found) =>
        ReplacedOne(Registry, RegistryOf(localStorage', configsItem'), lastOp'.key, lastOp'.arg)]_vars

\* C6: an update with a profile whose key matches no entry of the registry leaves
\* the persisted record and the result of loadEndpoints() unchanged.
C6_UnknownKeyUnchanged ==
    [][(lastOp'.op \in EditOps /\ ~lastOp'.found) =>
        /\ localStorage' = localStorage
        /\ RegistryOf(localStorage', configsItem') = Registry]_vars

\* an edit was submitted under a name that no entry of a registry with entries has
C6_Witness ==
    /\ lastOp.op \in EditOps
    /\ lastOp.ok
    /\ ~lastOp.found
    /\ Len(Registry) > 0
    /\ \A i \in 1..Len(Registry) : KeyOf(Registry[i]) # KeyOf(lastOp.arg)

\* C7: for every content of the backing record the application reaches,
\* saveEndpoints(loadEndpoints()) completes and leaves loadEndpoints() returning
\* what it returned before.
C7_SaveLoadIdempotent ==
    app = "manager" =>
        LET before == loadEndpoints(localStorage)
            saved == saveEndpoints(localStorage, before)
        IN /\ ~saved.threw
           /\ loadEndpoints(saved.store) = before

\* a row the table still showed was deleted again, so deleteEndpoint saved what it
\* had loaded, and the registry holds a profile with a non-ASCII secret
C7_Witness ==
    /\ app = "manager"
    /\ lastOp.op = "handleDelete"
    /\ lastOp.ok
    /\ ~lastOp.found
    /\ \E i \in 1..Len(Registry) : \E k \in 1..Len(Registry[i].secretAccessKey) :
            Registry[i].secretAccessKey[k] > 127

\* s is what encode returns for some string, and not that string
IsEncodedForm(s) ==
    /\ IsString(s)
    /\ ~encode(decode(s).value).threw
    /\ encode(decode(s).value).value = s
    /\ decode(s).value # s

\* C8: the persisted record holds accessKeyId and secretAccessKey of every profile in
\* the encoded form, never as the plaintext.
C8_SecretsEncoded ==
    app \in {"manager", "hook"} =>
        \A i \in 1..Len(PersistedItems) :
            /\ IsEncodedForm(PersistedItems[i].accessKeyId)
            /\ IsEncodedForm(PersistedItems[i].secretAccessKey)

\* what services/storage.ts keeps of C8
C8_StorageSecretsEncoded ==
    app = "manager" =>
        \A i \in 1..Len(PersistedItems) :
            /\ IsEncodedForm(PersistedItems[i].accessKeyId)
            /\ IsEncodedForm(PersistedItems[i].secretAccessKey)

\* the profile the add created carries an id that was never issued before, and no
\* two profiles of the registry share an id
FreshId(after, earlier) ==
    /\ Len(after) > 0
    /\ after[Len(after)].id # Undefined
    /\ after[Len(after)].id \notin earlier
    /\ \A i, j \in 1..Len(after) : i # j => after[i].id # after[j].id

\* C10: every profile the add flow creates carries an id assigned at creation, which
\* no profile had before (also no deleted one), and no two profiles share an id.
C10_IdsAssignedOnce ==
    [][(lastOp'.op \in AddOps \cup {"saveConfiguration"} /\ lastOp'.ok) =>
        FreshId(RegistryOf(localStorage', configsItem'), issued)]_vars

\* what the id-generating iterations keep of C10
C10_GeneratedIdsFresh ==
    [][(lastOp'.op \in {"addEndpoint", "saveConfiguration"}) =>
        FreshId(RegistryOf(localStorage', configsItem'), issued)]_vars

---------------------------------------------------------------------------
(* Claims about the selection, checked under Spec *)

\* the key of the selected profile, "" for no selection
SelectionKey(name, ep) ==
    IF app = "manager" THEN name ELSE IF ep = JNull THEN << >> ELSE ep.id

DeleteOps == {"handleDelete", "deleteEndpoint"}

\* C11: the delete of the selected profile leaves no endpoint selected, and the delete
\* of another profile leaves the selection as it was.
C11_DeleteClearsSelection ==
    [][lastOp'.op \in DeleteOps =>
        IF SelectionKey(selectedName, selectedEndpoint) = lastOp'.key
        THEN SelectionKey(selectedName', selectedEndpoint') = << >>
        ELSE selectedName' = selectedName /\ selectedEndpoint' = selectedEndpoint]_vars

\* what the code keeps of C11: the delete of a profile that is not selected leaves
\* the selection as it was
C11_OtherDeleteKeepsSelection ==
    [][(lastOp'.op \in DeleteOps /\ SelectionKey(selectedName, selectedEndpoint) # lastOp'.key) =>
        selectedName' = selectedName /\ selectedEndpoint' = selectedEndpoint]_vars

\* entry k is the first of that name in registry order
FirstNamed(endpoints, name, k) ==
    /\ endpoints[k].name = name
    /\ \A j \in 1..(k - 1) : endpoints[j].name # name

\* the client is built from the first profile of that name, from none if there is none
BuiltFromFirst(registry, name, client) ==
    IF \E k \in 1..Len(registry) : registry[k].name = name
    THEN \E k \in 1..Len(registry) : FirstNamed(registry, name, k) /\ client = registry[k]
    ELSE client = JNull

\* the first entry of p's name holds p, every other entry is as before
FirstReplaced(before, after, p) ==
    /\ Len(after) = Len(before)
    /\ \E k \in 1..Len(before) :
        /\ FirstNamed(before, p.name, k)
        /\ after[k] = p
        /\ \A i \in 1..Len(before) : i # k => after[i] = before[i]

\* C12: lookups by name are first-match: the storage client for a newly selected name
\* is built from the first profile of that name in registry order, and an update by
\* name modifies that first profile only.
C12_FirstMatch ==
    [][/\ (lastOp'.op = "handleSelect" /\ selectedName' # selectedName) =>
            BuiltFromFirst(Registry, selectedName', s3Client')
       /\ (lastOp'.op = "submitEdit" /\ lastOp'.ok /\ lastOp'.found) =>
            FirstReplaced(Registry, RegistryOf(localStorage', configsItem'), lastOp'.arg)]_vars

\* two different profiles share a name, that name was selected, and the client is
\* built from the first of them
C12_Witness ==
    /\ app = "manager"
    /\ lastOp.op = "handleSelect"
    /\ Len(Registry) = 2
    /\ Registry[1].name = Registry[2].name
    /\ Registry[1] # Registry[2]
    /\ selectedName = Registry[1].name
    /\ s3Client = Registry[1]

\* an edit was submitted under a name two different profiles share, and the second
\* of them is not the submitted profile
C12_WitnessUpdate ==
    /\ app = "manager"
    /\ lastOp.op = "submitEdit" /\ lastOp.ok /\ lastOp.found
    /\ Len(Registry) = 2
    /\ Registry[1] = lastOp.arg
    /\ Registry[2].name = lastOp.arg.name
    /\ Registry[2] # lastOp.arg

---------------------------------------------------------------------------
(* Claims about parseHash and updateHash, checked under SpecHash *)

\* a bucket only with an endpoint, a path only with a bucket, no '/' in the names
ValidTriple(t) ==
    /\ t.bucket # << >> => t.endpointName # << >>
    /\ t.path # << >> => t.bucket # << >>
    /\ ~HasSlash(t.endpointName) /\ ~HasSlash(t.bucket)

\* the first App's pair: a path only with a bucket, no '/' in the bucket's name
ValidPair(t) ==
    /\ t.endpointName = << >>
    /\ t.path # << >> => t.bucket # << >>
    /\ ~HasSlash(t.bucket)

\* updateHash was handed a valid selection, and parseHash read what it wrote
WroteAndRead ==
    /\ navOut.by # "none"
    /\ \/ navAssigned.by = "updateHash" /\ ValidTriple(navIn)
       \/ navAssigned.by = "updateHash0" /\ ValidPair(navIn)

SameTriple(a, b) ==
    a.endpointName = b.endpointName /\ a.bucket = b.bucket /\ a.path = b.path

\* C13: for every valid triple whose names hold no '/', parseHash after updateHash
\* yields the triple (in the first App: the pair of bucket and path).
C13_NavRoundTrip ==
    WroteAndRead => SameTriple(navOut, navIn)

\* the URL parser leaves every character of s as it is
PlainInFragment(s) ==
    /\ \A i \in 1..Len(s) : ~InFragmentEncodeSet(s[i])
    /\ Len(s) > 0 => s[1] # 35

\* what the code keeps of C13: a valid triple round-trips when the URL parser escapes
\* none of its characters
C13_PlainRoundTrip ==
    (WroteAndRead /\ PlainInFragment(navIn.endpointName \o navIn.bucket \o navIn.path)) =>
        SameTriple(navOut, navIn)

\* C14: updateHash assigns "" for an empty endpointName, endpointName alone for an
\* empty bucket, endpointName/bucket for an empty path and endpointName/bucket/path
\* otherwise, and so no separator for an absent segment.
C14_Truncates ==
    navAssigned.by = "updateHash" =>
        /\ navIn.endpointName = << >> => navAssigned.value = << >>
        /\ (navIn.endpointName # << >> /\ navIn.bucket = << >>) =>
                navAssigned.value = navIn.endpointName
        /\ (navIn.endpointName # << >> /\ navIn.bucket # << >> /\ navIn.path = << >>) =>
                navAssigned.value = navIn.endpointName \o <<47>> \o navIn.bucket
        /\ (navIn.endpointName # << >> /\ navIn.bucket # << >> /\ navIn.path # << >>) =>
                navAssigned.value = navIn.endpointName \o <<47>> \o navIn.bucket \o <<47>> \o navIn.path
        /\ (navIn.path = << >> \/ navIn.bucket = << >> \/ navIn.endpointName = << >>) =>
                (navAssigned.value = << >> \/ navAssigned.value[Len(navAssigned.value)] # 47)

\* updateHash was handed an endpoint and a path without a bucket, and assigned the
\* endpoint name alone
C14_Witness ==
    /\ navAssigned.by = "updateHash"
    /\ navIn.endpointName # << >> /\ navIn.bucket = << >> /\ navIn.path # << >>
    /\ navAssigned.value = navIn.endpointName

\* the index of the first '/' of s at or after position k, 0 if there is none
SlashFrom(s, k) ==
    IF \E i \in k..Len(s) : s[i] = 47
    THEN CHOOSE i \in k..Len(s) : s[i] = 47 /\ \A j \in k..(i - 1) : s[j] # 47
    ELSE 0

\* s cut at its first two '/'
CutAtTwo(s) ==
    LET first == SlashFrom(s, 1)
        second == IF first = 0 THEN 0 ELSE SlashFrom(s, first + 1)
    IN Triple(IF first = 0 THEN s ELSE SubSeq(s, 1, first - 1),
              IF first = 0 THEN << >>
              ELSE IF second = 0 THEN SubSeq(s, first + 1, Len(s))
              ELSE SubSeq(s, first + 1, second - 1),
              IF second = 0 THEN << >> ELSE SubSeq(s, second + 1, Len(s)))

\* C15: parseHash cuts the location at its first two '/' only: what precedes the
\* first is endpointName, what lies between them is bucket, everything after the
\* second is path; the empty location gives three empty strings.
C15_SplitsAtTwo ==
    navOut.by = "parseHash" =>
        /\ SameTriple(navOut, CutAtTwo(hash))
        /\ hash = << >> => SameTriple(navOut, NoTriple)

\* parseHash read "prod/assets/images/2024/" and kept the slashes of the path
C15_Witness ==
    /\ navOut.by = "parseHash"
    /\ navAssigned.by = "none"
    /\ hash = updateHash(SampleTriple.endpointName, SampleTriple.bucket, SampleTriple.path)
    /\ SameTriple(navOut, SampleTriple)

---------------------------------------------------------------------------
(* Claims about the navigation (checked under SpecNav) *)

NoSelection == Triple(<< >>, << >>, << >>)

\* C16: in every state of the navigation, after any UI actions and edits of the
\* location hash, a selected bucket comes with a selected endpoint and a non-empty
\* path with a selected bucket (the first App keeps no endpoint in its navigation:
\* only the second half is asked of it)
C16_Nested ==
    Mounted =>
        /\ (app = "nav" /\ selectedBucket # << >>) => selectedName # << >>
        /\ currentPath # << >> => selectedBucket # << >>

\* C17: clearing an outer level clears the inner ones: once 'back to endpoints' has
\* been taken and its hashchange event dispatched, nothing is selected; once 'back
\* to buckets' has been taken (with no event waiting) and its event dispatched, the
\* endpoint is the one that was selected and neither a bucket nor a path is
C17_OuterClearsInner ==
    /\ (lastOp.op = "handleBackToEndpoints" /\ pending = 0) => Selection = NoSelection
    /\ (lastOp.op = "handleBackToBuckets" /\ lastOp.ok /\ pending = 0) =>
          Selection = Triple(lastOp.key, << >>, << >>)

\* 'back to buckets' was taken from an endpoint, bucket and path and has taken effect
C17_Witness ==
    /\ app = "nav"
    /\ lastOp.op = "handleBackToBuckets" /\ lastOp.ok /\ lastOp.found /\ pending = 0
    /\ lastOp.key # << >>
    /\ Selection = Triple(lastOp.key, << >>, << >>)

\* 'back to endpoints' was taken from an endpoint and a path and has taken effect
C17_WitnessEndpoints ==
    /\ app = "nav"
    /\ lastOp.op = "handleBackToEndpoints" /\ lastOp.found /\ lastOp.key # << >> /\ pending = 0
    /\ Selection = NoSelection

\* the first App: 'back to buckets' was taken from a bucket and a path
C17_WitnessFirstApp ==
    /\ app = "nav0"
    /\ lastOp.op = "handleBackToBuckets" /\ lastOp.found /\ pending = 0
    /\ selectedBucket = << >> /\ currentPath = << >>

\* the selection is what parseHash reads from the location
InSync ==
    IF app = "nav" THEN Selection = parseHash(hash)
    ELSE /\ selectedBucket = parseHash0(hash).bucket
         /\ currentPath = parseHash0(hash).path
         /\ showObjects = (selectedBucket # << >>)

\* C18: the location hash and the selection stay synchronized in both directions:
\* whenever no hashchange event is waiting, the selection is what parseHash reads
\* from the hash, after an edit of the hash and after any UI action; and the two do
\* not keep rewriting each other: the events run out
C18_Synchronized ==
    /\ []((Mounted /\ pending = 0) => InSync)
    /\ <>[](pending = 0)

\* an edit of the hash has been applied to the selection
C18_Witness ==
    /\ lastOp.op = "externalEdit" /\ lastOp.arg # << >> /\ pending = 0
    /\ hash # << >> /\ InSync /\ selectedBucket # << >>

\* a UI action has been written to the hash and read back
C18_WitnessAction ==
    /\ lastOp.op = "handlePathChange" /\ lastOp.arg # << >> /\ pending = 0
    /\ InSync /\ currentPath # << >>

---------------------------------------------------------------------------
(* Claims about the gateway calls (checked under SpecGateway) *)

FailedCall ==
    /\ lastOp.op \in {"listBuckets", "createBucket", "deleteBucket", "listObjects"}
    /\ ~lastOp.ok

\* C19: every failure of a gateway call is caught in the handler that issued it and
\* turned into a shown message: no handler is left with a rejection nothing catches,
\* once a call has failed a message is shown, and the list shown is the one shown
\* before
C19_FailuresCaught ==
    /\ unhandled = {}
    /\ FailedCall => (error # NoMessage /\ buckets = lastOp.arg)

\* the same of BucketManager and ObjectManager, which catch inside the handler
C19_CaughtInComponent ==
    app \in {"bucketManager", "objectManager"} =>
        /\ unhandled = {}
        /\ FailedCall => (error # NoMessage /\ buckets = lastOp.arg /\ call = NoCall)

\* C20: a call is one attempt: after a listing of buckets has failed or returned
\* none, it is issued again only by a user, so that in the end no call is in flight
C20_Quiesces == <>[](call = NoCall)

\* the safety half: no listing is issued by an effect in answer to a settled listing
C20_NoReissue ==
    [][(call.op = "listBuckets" /\ call'.op = "listBuckets") => call'.by # "effect"]_vars

\* the same of BucketManager and ObjectManager, whose effect depends on the client
\* (the bucket, the path) alone
C20_ComponentQuiesces == <>[](app \in {"bucketManager", "objectManager"} => call = NoCall)

---------------------------------------------------------------------------
(* Claims about the forms (checked under SpecForm) *)

CreateHandlers == {"handleCreate", "handleCreateBucket", "BucketList.handleCreate"}

\* C21: a create-bucket submission whose name is empty or does not match the
\* lowercase bucket-name pattern never makes the CreateBucket call, and a connect
\* submission with an empty required field never calls onConnect
C21_InvalidNeverCalls ==
    /\ (fnOut.by \in CreateHandlers /\ ~MatchesBucketPattern(fnIn.name)) => ~fnOut.called
    /\ (fnOut.by = "handleSubmit"
          /\ << >> \in {fnIn.region, fnIn.accessKeyId, fnIn.secretAccessKey}) => ~fnOut.called
    /\ (fnOut.by = "handleSubmit(bucket)"
          /\ << >> \in {fnIn.region, fnIn.accessKeyId, fnIn.secretAccessKey, fnIn.bucket}) =>
            ~fnOut.called

\* what does hold: an empty name (also one of spaces only) makes no call in any
\* view, a malformed one makes none in the antd view, and an empty required field
\* keeps onConnect from being called
C21_EmptyNeverCalls ==
    /\ (fnOut.by \in CreateHandlers /\ trim(fnIn.name) = << >>) => ~fnOut.called
    /\ (fnOut.by = "handleCreate" /\ ~MatchesBucketPattern(fnIn.name)) => ~fnOut.called
    /\ (fnOut.by = "handleSubmit"
          /\ << >> \in {fnIn.region, fnIn.accessKeyId, fnIn.secretAccessKey}) => ~fnOut.called
    /\ (fnOut.by = "handleSubmit(bucket)"
          /\ << >> \in {fnIn.region, fnIn.accessKeyId, fnIn.secretAccessKey, fnIn.bucket}) =>
            ~fnOut.called

---------------------------------------------------------------------------
(* Claims about the object listings (checked under SpecList) *)

ListFunctions == {"s3Client.listObjects", "S3Service.listObjects", "S3Browser.loadObjects"}

\* the keys of the folder entries of a result (S3Service returns them apart, as
\* prefixes) and of its object entries, in order
FolderKeys(out) ==
    IF out.by = "S3Service.listObjects" THEN out.prefixes
    ELSE MapSeq(SelectSeq(out.objects, LAMBDA e : e.isFolder), LAMBDA e : e.key)

ObjectKeys(out) == MapSeq(SelectSeq(out.objects, LAMBDA e : ~e.isFolder), LAMBDA e : e.key)

FoldersFirst(out) ==
    \A i, j \in 1..Len(out.objects) :
        (out.objects[i].isFolder /\ ~out.objects[j].isFolder) => i < j

\* the result holds the sub-prefixes and the keys of the response, folders first
ListsResponse(out, prefix, response) ==
    /\ FolderKeys(out) = OrEmpty(response.CommonPrefixes)
    /\ \A k \in ContentKeys(prefix) \ {prefix} :
          (\E i \in 1..Len(OrEmpty(response.Contents)) : OrEmpty(response.Contents)[i] = k)
          <=> (\E i \in 1..Len(ObjectKeys(out)) : ObjectKeys(out)[i] = k)
    /\ FoldersFirst(out)

\* C22: listObjects for (bucket, prefix) returns the immediate sub-prefixes, as
\* folder entries before the objects, and the immediate object keys of the
\* response, and no object entry of the result has the prefix itself as its key
C22_ListsWithoutMarker ==
    fnOut.by \in ListFunctions =>
        /\ ListsResponse(fnOut, fnIn.prefix, fnIn.response)
        /\ \A i \in 1..Len(fnOut.objects) :
              ~fnOut.objects[i].isFolder => fnOut.objects[i].key # fnIn.prefix

\* what does hold of all three: the sub-prefixes and the other keys are returned,
\* folders first; and of listObjects of s3Client.ts and of loadObjects: no marker
C22_ListsResponse ==
    fnOut.by \in ListFunctions =>
        /\ ListsResponse(fnOut, fnIn.prefix, fnIn.response)
        /\ fnOut.by # "S3Service.listObjects" =>
              \A i \in 1..Len(fnOut.objects) :
                  ~fnOut.objects[i].isFolder => fnOut.objects[i].key # fnIn.prefix

---------------------------------------------------------------------------
(* Claims about the object listing and its requests                         *)

ListingInFlight == \E i \in 1..Len(inFlight) : inFlight[i].op \in {"listObjects", "selectBucket"}

\* C23: whenever no listing request is in flight, the listing shown was fetched for
\* the bucket and the prefix that are selected, never for another bucket or prefix
\* (a view that has listed nothing yet shows no listing).
C23_ListingIsCurrent ==
    (app \in {"objects", "browser"} /\ ~ListingInFlight /\ objects # NoListing)
        => (objects.bucket = selectedBucket /\ objects.prefix = currentPath)

\* C24: no two listing requests of the object manager for the same bucket and prefix
\* are in flight at the same time.
C24_OneListingPerTarget ==
    app = "objects" =>
        \A i, j \in 1..Len(inFlight) :
            (i # j /\ inFlight[i].op = "listObjects" /\ inFlight[j].op = "listObjects")
                => Target(inFlight[i].bucket, inFlight[i].prefix)
                       # Target(inFlight[j].bucket, inFlight[j].prefix)

\* C28: the loading flag of useS3Browser is true whenever a call that raised it is
\* in flight, and false once all of them have settled.
C28_LoadingWhileInFlight ==
    app = "browser" => (loading <=> inFlight # << >>)

\* What holds instead: the flag is false once every call has settled.
C28_IdleWhenSettled ==
    (app = "browser" /\ inFlight = << >>) => ~loading

---------------------------------------------------------------------------
(* Claims about what reaches the browser's storage                          *)

\* the profiles of an item of the storage
ItemsOf(item) == IF item.kind = "json" THEN EndpointsOf(item.value) ELSE << >>

\* the stored object carries an access key id or a secret access key
HoldsCredential(o) ==
    \/ "accessKeyId" \in DOMAIN o /\ o.accessKeyId \notin {Undefined, << >>}
    \/ "secretAccessKey" \in DOMAIN o /\ o.secretAccessKey \notin {Undefined, << >>}

HoldsSecret(o) == "secretAccessKey" \in DOMAIN o /\ o.secretAccessKey \notin {Undefined, << >>}

\* C25: no operation writes an access key id or a secret access key to the
\* browser's storage: what a save writes holds neither.
C25_NoCredentialWritten ==
    [][/\ localStorage' # localStorage =>
            \A i \in 1..Len(ItemsOf(localStorage')) : ~HoldsCredential(ItemsOf(localStorage')[i])
       /\ configsItem' # configsItem =>
            \A i \in 1..Len(ConfigsOf(configsItem')) : ~HoldsCredential(ConfigsOf(configsItem')[i])]_vars

\* What holds instead: a saved configuration keeps the secret access key out of the
\* storage (it holds the access key id).
C25_ConfigKeepsSecretOut ==
    [][configsItem' # configsItem =>
            \A i \in 1..Len(ConfigsOf(configsItem')) : ~HoldsSecret(ConfigsOf(configsItem')[i])]_vars

---------------------------------------------------------------------------
(* Claims about two tabs on one backing record                              *)

TabSaves == {"addEndpoint", "updateEndpoint", "deleteEndpoint"}

\* C26: a save by a tab leaves the record equal to the list that tab wrote, whatever
\* the other tab has written since this tab loaded: what the record gained in
\* between is absent from it.
C26_LastWriteWins ==
    [][(app \in {"tabs", "tabsStorage"} /\ lastOp'.op \in TabSaves /\ localStorage' # localStorage) =>
          /\ TabLoad(localStorage') = lastOp'.arg
          /\ missed[lastOp'.key] \cap TabKeys(TabLoad(localStorage')) = {}]_vars

\* a tab has saved its list after the other tab's profile reached the record
C26_Witness ==
    /\ app \in {"tabs", "tabsStorage"} /\ lastOp.op \in TabSaves
    /\ missed[lastOp.key] # {}
    /\ TabLoad(localStorage) = lastOp.arg

\* the same in each of the two variants
C26_WitnessHook == C26_Witness /\ app = "tabs" /\ lastOp.op = "addEndpoint"

C26_WitnessStorage == C26_Witness /\ app = "tabsStorage" /\ lastOp.op = "addEndpoint"

---------------------------------------------------------------------------
(* Claims about the rendered view                                           *)

Views == {"EndpointManager", "BucketManager", "FileDetail", "ObjectManager"}

IsFolderPath(path) == path = << >> \/ path[Len(path)] = 47

\* C27: the view App renders is told by the selection: the endpoint manager without
\* an endpoint, else the bucket manager without a bucket, else the file detail for a
\* non-empty path that does not end in '/', else the object listing; it is one of
\* the four in every state.
C27_RenderedBySelection ==
    (app = "nav" /\ Mounted) =>
        /\ Rendered \in Views
        /\ selectedName = << >> => Rendered = "EndpointManager"
        /\ (selectedName # << >> /\ selectedBucket = << >>) => Rendered = "BucketManager"
        /\ (selectedName # << >> /\ selectedBucket # << >> /\ ~IsFolderPath(currentPath))
                => Rendered = "FileDetail"
        /\ (selectedName # << >> /\ selectedBucket # << >> /\ IsFolderPath(currentPath))
                => Rendered = "ObjectManager"

\* a file of a bucket is selected and its detail is rendered
C27_Witness ==
    /\ app = "nav" /\ Mounted
    /\ selectedName # << >> /\ selectedBucket # << >> /\ ~IsFolderPath(currentPath)
    /\ Rendered = "FileDetail"

\* a folder of a bucket is selected and its listing is rendered
C27_WitnessFolder ==
    /\ app = "nav" /\ Mounted
    /\ selectedName # << >> /\ selectedBucket # << >> /\ currentPath # << >>
    /\ Rendered = "ObjectManager"

---------------------------------------------------------------------------
(* Claims about the selected endpoint and the registry                      *)

\* C29: in the variants keyed by id, after any adds, updates, deletes and selects, the
\* selected endpoint is none or equal to a profile the registry holds, in the
\* list on the page and in the backing record alike.
C29_SelectedIsRegistered ==
    (app \in {"hook", "managerById"} /\ Mounted) =>
        \/ selectedEndpoint = JNull
        \/ /\ \E i \in 1..Len(hookEndpoints) : hookEndpoints[i] = selectedEndpoint
           /\ \E i \in 1..Len(Registry) : Registry[i] = selectedEndpoint

\* the selected profile has been edited and is selected with its new fields
C29_Witness ==
    /\ app \in {"hook", "managerById"}
    /\ lastOp.op \in {"updateEndpoint", "byId_submitEdit"} /\ lastOp.ok
    /\ selectedEndpoint # JNull /\ selectedEndpoint = lastOp.arg
    /\ \E i \in 1..Len(Registry) : Registry[i] = selectedEndpoint

C29_WitnessHook == C29_Witness /\ app = "hook"

C29_WitnessById == C29_Witness /\ app = "managerById"

\* the selected profile has been deleted and another one is selected
C29_WitnessDelete ==
    /\ app \in {"hook", "managerById"}
    /\ lastOp.op \in {"deleteEndpoint", "byId_handleDelete"}
    /\ selectedEndpoint # JNull /\ selectedEndpoint.id # lastOp.key

---------------------------------------------------------------------------
(* Claims about what a delete leaves                                        *)

RemoveAt(q, k) == SubSeq(q, 1, k - 1) \o SubSeq(q, k + 1, Len(q))

\* after is before without exactly one entry, one stored under the key
OneRemoved(before, after, key) ==
    \E k \in 1..Len(before) : KeyOf(before[k]) = key /\ after = RemoveAt(before, k)

\* C30: a delete of a profile the registry holds removes exactly that one profile:
\* every other profile, one of the same display name included, is still there and
\* unchanged.
C30_DeleteRemovesOne ==
    [][(app \in {"manager", "hook"} /\ lastOp'.op \in DeleteOps /\ lastOp'.found) =>
        OneRemoved(Registry, RegistryOf(localStorage', configsItem'), lastOp'.key)]_vars

\* What holds instead: the delete of useS3Browser, which goes by id, removes the one
\* profile of that id.
C30_HookDeleteRemovesOne ==
    [][(app = "hook" /\ lastOp'.op \in DeleteOps /\ lastOp'.found) =>
        OneRemoved(Registry, RegistryOf(localStorage', configsItem'), lastOp'.key)]_vars

====
